---- MODULE Spec2Model ----
(***************************************************************************)
(* Model of the kanbanflow-minimal task board: the KanbanBoard component   *)
(* (task array, local-storage mirror, drag and drop, keyboard shortcuts,   *)
(* import), the add-task dialog's AI generation and the two HTTP helpers   *)
(* generateTaskFromPrompt and getAISuggestions.                            *)
(***************************************************************************)
EXTENDS Integers, Sequences, FiniteSets, TLC

(***************************************************************************)
(* Bounds of the model.                                                    *)
(***************************************************************************)
MaxTasks == 3
MaxClock == 1
MaxSteps == 6

(***************************************************************************)
(* Program constants.                                                      *)
(***************************************************************************)
MAX_TITLE_LENGTH == 100
MAX_DESCRIPTION_LENGTH == 500
MAX_PROMPT_LENGTH == 1000

STORAGE_KEY == "kanban-tasks"

(***************************************************************************)
(* JavaScript values.  Every field of a task and of a parsed JSON record   *)
(* is a value [t, s, n]: undefined, null, a string, a number, a valid Date *)
(* (n = its time) or an Invalid Date.  An ISO date string is the string    *)
(* "iso" tagged with the time it denotes.                                  *)
(***************************************************************************)
Undef == [t |-> "undef", s |-> "", n |-> 0]
Null == [t |-> "null", s |-> "", n |-> 0]
Str(x) == [t |-> "str", s |-> x, n |-> 0]
Num(x) == [t |-> "num", s |-> "", n |-> x]
DateV(x) == [t |-> "date", s |-> "", n |-> x]
InvalidDate == [t |-> "invalid", s |-> "", n |-> 0]
Iso(x) == [t |-> "str", s |-> "iso", n |-> x]

Truthy(v) ==
  CASE v.t = "undef" -> FALSE
    [] v.t = "null" -> FALSE
    [] v.t = "str" -> v.s # ""
    [] v.t = "num" -> v.n # 0
    [] OTHER -> TRUE

\* String(v)
ToStr(v) ==
  CASE v.t = "str" -> v.s
    [] v.t = "num" -> ToString(v.n)
    [] v.t = "undef" -> "undefined"
    [] v.t = "null" -> "null"
    [] v.t = "obj" -> "[object Object]"
    [] OTHER -> "date"

\* new Date(v)
NewDate(v) ==
  CASE v.t = "undef" -> InvalidDate
    [] v.t = "null" -> DateV(0)
    [] v.t = "num" -> DateV(v.n)
    [] v.t = "str" -> IF v.s = "iso" THEN DateV(v.n) ELSE InvalidDate
    [] v.t = "date" -> DateV(v.n)
    [] OTHER -> InvalidDate

\* Date.prototype.toJSON and JSON.stringify of a field value
ToJSON(v) ==
  CASE v.t = "date" -> Iso(v.n)
    [] v.t = "invalid" -> Null
    [] OTHER -> v

(***************************************************************************)
(* Strings: String.prototype.trim and slice(0, n).                         *)
(***************************************************************************)
Min(a, b) == IF a < b THEN a ELSE b

\* what lies between the first and the last position that hold no white space
trim(x) ==
  LET kept == {i \in 1..Len(x) : SubSeq(x, i, i) # " "}
  IN IF kept = {} THEN ""
     ELSE SubSeq(x, CHOOSE i \in kept : \A j \in kept : i <= j,
                    CHOOSE i \in kept : \A j \in kept : j <= i)

slice(x, n) == SubSeq(x, 1, Min(n, Len(x)))

\* parseInt of a string that starts with a digit: the number its leading digits
\* spell (the values of the time input and of the reminder options do start
\* with a digit; of any other string parseInt is NaN)
parseInt(x) ==
  LET digit == ("0" :> 0) @@ ("1" :> 1) @@ ("2" :> 2) @@ ("3" :> 3) @@ ("4" :> 4) @@
               ("5" :> 5) @@ ("6" :> 6) @@ ("7" :> 7) @@ ("8" :> 8) @@ ("9" :> 9)
      isDigit(i) == SubSeq(x, i, i) \in DOMAIN digit
      last == CHOOSE k \in 0..Len(x) :
                /\ \A i \in 1..k : isDigit(i)
                /\ k < Len(x) => ~isDigit(k + 1)
      RECURSIVE value(_)
      value(k) == IF k = 0 THEN 0 ELSE 10 * value(k - 1) + digit[SubSeq(x, k, k)]
  IN value(last)

RECURSIVE Rep(_, _)
Rep(x, n) ==
  IF n = 0 THEN ""
  ELSE LET half == Rep(x, n \div 2)
       IN half \o half \o (IF n % 2 = 1 THEN x ELSE "")

(***************************************************************************)
(* Sequences.                                                              *)
(***************************************************************************)
Map(f(_), q) == [i \in 1..Len(q) |-> f(q[i])]

\* Array.prototype.findIndex, 1-based; 0 when nothing matches
FindIndex(q, P(_)) ==
  IF \E i \in 1..Len(q) : P(q[i])
  THEN CHOOSE i \in 1..Len(q) : P(q[i]) /\ \A j \in 1..(i - 1) : ~P(q[j])
  ELSE 0

RECURSIVE SelectSeqBy(_, _)
SelectSeqBy(q, keep) ==
  IF q = <<>> THEN <<>>
  ELSE (IF keep[1] THEN <<Head(q)>> ELSE <<>>)
       \o SelectSeqBy(Tail(q), [i \in 1..(Len(q) - 1) |-> keep[i + 1]])

\* Array.prototype.filter
Filter(q, P(_)) == SelectSeqBy(q, [i \in 1..Len(q) |-> P(q[i])])

\* String.prototype.toLowerCase
\* the lower-case letter of every upper-case letter
LowerCase ==
  [ A |-> "a", B |-> "b", C |-> "c", D |-> "d", E |-> "e", F |-> "f",
    G |-> "g", H |-> "h", I |-> "i", J |-> "j", K |-> "k", L |-> "l",
    M |-> "m", N |-> "n", O |-> "o", P |-> "p", Q |-> "q", R |-> "r",
    S |-> "s", T |-> "t", U |-> "u", V |-> "v", W |-> "w", X |-> "x",
    Y |-> "y", Z |-> "z" ]

RECURSIVE toLowerCase(_)
toLowerCase(x) ==
  IF Len(x) = 0 THEN ""
  ELSE IF Len(x) = 1 THEN (IF x \in DOMAIN LowerCase THEN LowerCase[x] ELSE x)
  ELSE toLowerCase(SubSeq(x, 1, Len(x) \div 2))
       \o toLowerCase(SubSeq(x, Len(x) \div 2 + 1, Len(x)))

\* String.prototype.includes
includes(x, part) ==
  \E i \in 1..(Len(x) - Len(part) + 1) : SubSeq(x, i, i + Len(part) - 1) = part

(***************************************************************************)
(* Task records and their persisted form.                                  *)
(***************************************************************************)
TaskStatus == {"todo", "in-progress", "done"}

Task(id, title, description, status, createdAt, updatedAt, dueDate, dueTime, reminderTime) ==
  [id |-> id, title |-> title, description |-> description, status |-> status,
   createdAt |-> createdAt, updatedAt |-> updatedAt,
   dueDate |-> dueDate, dueTime |-> dueTime, reminderTime |-> reminderTime]

\* JSON.stringify(tasks): the value stored under STORAGE_KEY, each task
\* record as the parsed JSON record
Stringify(ts) ==
  LET StringifyTask(task) ==
        [id |-> ToJSON(task.id), title |-> ToJSON(task.title),
         description |-> ToJSON(task.description), status |-> ToJSON(task.status),
         createdAt |-> ToJSON(task.createdAt), updatedAt |-> ToJSON(task.updatedAt),
         dueDate |-> ToJSON(task.dueDate), dueTime |-> ToJSON(task.dueTime),
         reminderTime |-> ToJSON(task.reminderTime)]
  IN [k |-> "array", items |-> Map(StringifyTask, ts)]

(***************************************************************************)
(* State.                                                                  *)
(***************************************************************************)
VARIABLES
  phase,           \* "closed": page not open; "loading": first commit done, the
                   \* load effect's setTasks queued; "ready"; "crashed": the
                   \* component tree was unmounted by an uncaught error
  tasks,           \* useState<Task[]>
  pending,         \* the array the load effect handed to setTasks
  storage,         \* localStorage item STORAGE_KEY
  quota,           \* environment: localStorage.setItem throws (storage full)
  exported,        \* the file the latest handleExport has downloaded, as the
                   \* value JSON.parse makes of it: <<>> before any export
  activeId,        \* useState<string | null>
  selectedTaskId,  \* useState<string | null>
  deleteTaskId,    \* useState<string | null>
  editingTask,     \* useState<Task | null>: <<>> for null, <<task>> otherwise
  isEditModalOpen, \* useState(false)
  toast,           \* the latest toast
  now,             \* Date.now()
  atClose,         \* history: tasks when the page was closed, until the next
                   \* mount has rendered the loaded array
  steps,           \* number of handler runs so far, at most MaxSteps
  gen,             \* the generateTaskFromPrompt invocation
  sug,             \* the getAISuggestions invocation
  isGenerating,    \* add dialog: useState(false)
  generatedTasks,  \* add dialog: useState<GeneratedTask[]>([])
  dlgApiKey,       \* add dialog: const [apiKey, setApiKey] = useState('')
  showApiKeyInput, \* add dialog: useState(true)
  timer,           \* add dialog: the pending timeouts of handleTitleChange and
                   \* suggestionsTimeoutRef.current, the id of the latest one
  dlgSuggestions,  \* add dialog: const [suggestions, setSuggestions] = useState([])
  dlgTitle,        \* add dialog: const [title, setTitle] = useState('')
  showSuggestions, \* add dialog: useState(false)
  earlier,         \* the getAISuggestions invocations that were in flight when a
                   \* later one started, oldest first
  searchTerm,      \* useState('')
  filterStatus,    \* useState<TaskStatus | 'all'>('all')
  dateFilterType,  \* useState<DateFilterType>('all')
  customDateRange, \* useState<DateRange | undefined>()
  keyEvent,        \* the keydown event the window listener was called with last
  otherItems,      \* localStorage: the items under keys other than STORAGE_KEY
  notificationsEnabled, \* useState(false)
  permissionAsked, \* the mount's requestNotificationPermission() has not settled
  scheduled        \* the timeouts of scheduleNotification that are pending

notifVars == <<notificationsEnabled, permissionAsked, scheduled>>

uiVars == <<activeId, selectedTaskId, deleteTaskId, editingTask, isEditModalOpen>>

dialogVars == <<dlgApiKey, showApiKeyInput, timer, dlgSuggestions, otherItems, dlgTitle,
               showSuggestions, earlier>>

aiVars == <<gen, sug, isGenerating, generatedTasks, dialogVars>>

filterVars == <<searchTerm, filterStatus, dateFilterType, customDateRange>>

boardVars == <<phase, tasks, pending, storage, quota, exported, notifVars, activeId, selectedTaskId,
               deleteTaskId, editingTask, isEditModalOpen, toast, now, atClose,
               filterVars>>

\* no keydown event yet
NoKeyEvent ==
  [key |-> "", ctrlKey |-> FALSE, altKey |-> FALSE, shiftKey |-> FALSE, metaKey |-> FALSE,
   tagName |-> "", contentEditable |-> "", defaultPrevented |-> FALSE]

\* customDateRange is undefined
NoRange == [from |-> Undef, to |-> Undef]

NoToast == [level |-> "none", msg |-> ""]
Toast(level, msg) == [level |-> level, msg |-> msg]

BoardInit ==
  /\ phase = "closed"
  /\ tasks = <<>>
  /\ pending = <<>>
  /\ storage = [k |-> "absent", items |-> <<>>]
  /\ quota = FALSE
  /\ exported = <<>>
  /\ activeId = Null
  /\ selectedTaskId = Null
  /\ deleteTaskId = Null
  /\ editingTask = <<>>
  /\ isEditModalOpen = FALSE
  /\ toast = NoToast
  /\ now = 0
  /\ atClose = <<>>
  /\ steps = 0
  /\ searchTerm = ""
  /\ filterStatus = "all"
  /\ dateFilterType = "all"
  /\ customDateRange = NoRange
  /\ keyEvent = NoKeyEvent
  /\ notificationsEnabled = FALSE
  /\ permissionAsked = FALSE
  /\ scheduled = <<>>

\* a save that misses the last task of the array
SaveEffectStale(ts) == Stringify(SubSeq(ts, 1, Len(ts) - 1))

(***************************************************************************)
(* The save effect: localStorage.setItem(STORAGE_KEY, JSON.stringify(tasks)) *)
(***************************************************************************)
SaveEffect(ts) == Stringify(ts)

\* setTasks(newTasks), the render, and the save effect of that render.  The
\* effect has no try/catch: when setItem throws, the error is uncaught and
\* React unmounts the tree.
Commit(newTasks, nextPhase) ==
  /\ tasks' = newTasks
  /\ IF quota
     THEN /\ storage' = storage
          /\ phase' = "crashed"
     ELSE /\ storage' = SaveEffect(newTasks)
          /\ phase' = nextPhase

\* a handler that ends without calling setTasks
NoCommit == UNCHANGED <<phase, tasks, storage>>

(***************************************************************************)
(* Mount: the first commit runs the load effect, then the save effect with *)
(* the initial state []; the state update queued by the load effect is     *)
(* rendered next, and its save effect writes the loaded array.             *)
(***************************************************************************)
\* JSON.parse(stored) succeeds and parsed.map(...) does not throw
Loadable(item) == item.k = "array"

LoadEffect(item) ==
  LET LoadTask(j) ==
        [j EXCEPT !.createdAt = NewDate(j.createdAt),
                  !.updatedAt = NewDate(j.updatedAt),
                  !.dueDate = IF Truthy(j.dueDate) THEN NewDate(j.dueDate) ELSE Undef]
  IN Map(LoadTask, item.items)

Mount ==
  /\ phase = "closed"
  /\ IF storage.k = "absent"
     THEN /\ pending' = <<>>
          /\ Commit(<<>>, "ready")
          /\ atClose' = <<>>
     ELSE IF Loadable(storage)
     THEN /\ pending' = LoadEffect(storage)
          /\ Commit(<<>>, "loading")
          /\ atClose' = atClose
     ELSE \* catch: console.error('Failed to load tasks:', error)
          /\ pending' = <<>>
          /\ Commit(<<>>, "ready")
          /\ atClose' = <<>>
  /\ permissionAsked' = TRUE
  /\ UNCHANGED <<uiVars, toast, now, quota, exported, notificationsEnabled, scheduled>>

MountRerender ==
  /\ phase = "loading"
  /\ Commit(pending, "ready")
  /\ pending' = <<>>
  /\ atClose' = <<>>
  /\ UNCHANGED <<uiVars, toast, now, quota, exported, notifVars>>

\* the tab is closed or reloaded: component state is gone, storage stays
ClosePage ==
  /\ phase \in {"loading", "ready", "crashed"}
  /\ phase' = "closed"
  /\ atClose' = IF phase = "ready" THEN tasks ELSE atClose
  /\ tasks' = <<>>
  /\ pending' = <<>>
  /\ activeId' = Null
  /\ selectedTaskId' = Null
  /\ deleteTaskId' = Null
  /\ editingTask' = <<>>
  /\ isEditModalOpen' = FALSE
  /\ toast' = NoToast
  /\ searchTerm' = ""
  /\ filterStatus' = "all"
  /\ dateFilterType' = "all"
  /\ customDateRange' = NoRange
  /\ keyEvent' = NoKeyEvent
  /\ notificationsEnabled' = FALSE
  /\ permissionAsked' = FALSE
  /\ scheduled' = <<>>
  /\ UNCHANGED <<storage, now, quota, exported>>

Tick ==
  /\ now < MaxClock
  /\ now' = now + 1
  /\ UNCHANGED <<phase, tasks, pending, storage, quota, exported, notifVars, uiVars, toast, atClose>>

(***************************************************************************)
(* The pointer reaches the cards, the toolbar and the add dialog only      *)
(* while no drag is in progress and no modal dialog (delete confirmation,  *)
(* edit) covers the board.  Keyboard shortcuts are window listeners and    *)
(* run in every state of the mounted board.                                *)
(***************************************************************************)
PointerFree ==
  /\ phase = "ready"
  /\ activeId = Null
  /\ deleteTaskId = Null
  /\ ~isEditModalOpen

(***************************************************************************)
(* handleAddTask                                                           *)
(***************************************************************************)
TaskData(title, description, dueDate, dueTime, reminderTime) ==
  [title |-> title, description |-> description, dueDate |-> dueDate,
   dueTime |-> dueTime, reminderTime |-> reminderTime]

\* what the add dialog's handleSubmit and handleAddGeneratedTask hand to onAdd
TaskDataInputs ==
  { TaskData("a", "d", DateV(1), Str("09:00"), Num(10)) }

NewTask(taskData) ==
  Task(Str(ToString(now)), Str(taskData.title), Str(taskData.description), Str("todo"),
       DateV(now), DateV(now), taskData.dueDate, taskData.dueTime, taskData.reminderTime)

\* scheduleNotification(task) at time t: the pending timeouts afterwards.  No
\* record of the program carries notificationSent: nothing sets it.
scheduleNotification(task, t) ==
  LET setHours(d, time) ==
        LET colon == CHOOSE i \in 1..Len(time) : /\ SubSeq(time, i, i) = ":"
                                                  /\ \A j \in 1..(i - 1) : SubSeq(time, j, j) # ":"
            hours == parseInt(SubSeq(time, 1, colon - 1))
            minutes == parseInt(SubSeq(time, colon + 1, Len(time)))
        IN (d \div 86400000) * 86400000 + hours * 3600000 + minutes * 60000 + (d % 60000)
      dueDate == NewDate(task.dueDate)
      due == IF Truthy(task.dueTime) THEN setHours(dueDate.n, task.dueTime.s) ELSE dueDate.n
      reminderDate == due - task.reminderTime.n * 60000
      timeUntilReminder == reminderDate - t
  IN IF ~Truthy(task.dueDate) \/ ~Truthy(task.reminderTime) \/ dueDate.t # "date"
     THEN scheduled
     ELSE IF timeUntilReminder > 0
     THEN Append(scheduled, [tag |-> task.id, at |-> reminderDate])
     ELSE scheduled

handleAddTask(taskData) ==
  /\ PointerFree
  /\ Len(tasks) < MaxTasks
  /\ Commit(Append(tasks, NewTask(taskData)), "ready")
  /\ scheduled' = IF Truthy(NewTask(taskData).reminderTime) /\ notificationsEnabled
                  THEN scheduleNotification(NewTask(taskData), now)
                  ELSE scheduled
  /\ toast' = Toast("success", "Task added successfully")
  /\ UNCHANGED <<pending, uiVars, now, quota, exported, notificationsEnabled, permissionAsked, atClose>>

(***************************************************************************)
(* Drag and drop                                                           *)
(***************************************************************************)
TaskIds(ts) == {ts[i].id : i \in 1..Len(ts)}

HasId(ts, id) == \E i \in 1..Len(ts) : ts[i].id = id

\* tasks.find(task => task.id === id), for an id that HasId
Find(ts, id) == ts[FindIndex(ts, LAMBDA t : t.id = id)]

handleDragStart(id) ==
  /\ PointerFree
  /\ activeId' = id
  /\ NoCommit
  /\ UNCHANGED <<pending, selectedTaskId, deleteTaskId, editingTask, isEditModalOpen,
                 toast, now, quota, exported, notifVars, atClose>>

\* prevTasks.map(task => task.id === active.id
\*   ? { ...task, status: newStatus, updatedAt: new Date() } : task)
DragMove(ts, id, newStatus, t) ==
  [i \in 1..Len(ts) |->
     IF ts[i].id = id
     THEN [ts[i] EXCEPT !.status = Str(newStatus), !.updatedAt = DateV(t)]
     ELSE ts[i]]

\* an arrayMove that inserts in front of the target counted before the removal
arrayMoveBefore(array, from, to) ==
  LET without == SubSeq(array, 1, from - 1) \o SubSeq(array, from + 1, Len(array))
      at == IF from < to THEN to - 1 ELSE to
  IN SubSeq(without, 1, at - 1) \o <<array[from]>> \o SubSeq(without, at, Len(without))

\* arrayMove(array, from, to) of @dnd-kit/sortable, 1-based
arrayMove(array, from, to) ==
  LET without == SubSeq(array, 1, from - 1) \o SubSeq(array, from + 1, Len(array))
  IN SubSeq(without, 1, to - 1) \o <<array[from]>> \o SubSeq(without, to, Len(without))

ColumnName(status) ==
  CASE status = "todo" -> "To Do"
    [] status = "in-progress" -> "In Progress"
    [] OTHER -> "Done"

\* a reorder that takes the dragged task out and does not put it back
DragReorderDrops(ts, activeIdV, overIdV) ==
  LET status == Find(ts, activeIdV).status
      columnTasks == Filter(ts, LAMBDA t : t.status = status)
      oldIndex == FindIndex(columnTasks, LAMBDA t : t.id = activeIdV)
      otherTasks == Filter(ts, LAMBDA t : t.status # status)
  IN otherTasks \o SubSeq(columnTasks, 1, oldIndex - 1)
                \o SubSeq(columnTasks, oldIndex + 1, Len(columnTasks))

\* the reorder branch: [...otherTasks, ...reorderedTasks]
DragReorder(ts, activeIdV, overIdV) ==
  LET status == Find(ts, activeIdV).status
      columnTasks == Filter(ts, LAMBDA t : t.status = status)
      oldIndex == FindIndex(columnTasks, LAMBDA t : t.id = activeIdV)
      newIndex == FindIndex(columnTasks, LAMBDA t : t.id = overIdV)
      reorderedTasks == arrayMove(columnTasks, oldIndex, newIndex)
      otherTasks == Filter(ts, LAMBDA t : t.status # status)
  IN otherTasks \o reorderedTasks

\* a drag end whose early return for a missing target leaves the active id
handleDragEndKeepsActive(over) ==
  /\ phase = "ready"
  /\ activeId # Null
  /\ activeId' = IF over = Null THEN activeId ELSE Null
  /\ IF over = Null \/ ~HasId(tasks, activeId)
     THEN /\ NoCommit
          /\ toast' = toast
     ELSE IF over.s \in TaskStatus
     THEN IF Find(tasks, activeId).status # Str(over.s)
          THEN /\ Commit(DragMove(tasks, activeId, over.s, now), "ready")
               /\ toast' = Toast("success", "Task moved to " \o ColumnName(over.s))
          ELSE /\ NoCommit
               /\ toast' = toast
     ELSE IF HasId(tasks, over) /\ Find(tasks, activeId).status = Find(tasks, over).status
     THEN /\ Commit(DragReorder(tasks, activeId, over), "ready")
          /\ toast' = toast
     ELSE /\ NoCommit
          /\ toast' = toast
  /\ UNCHANGED <<pending, selectedTaskId, deleteTaskId, editingTask, isEditModalOpen,
                 now, quota, exported, notifVars, atClose>>

handleDragEnd(over) ==
  /\ phase = "ready"
  /\ activeId # Null
  /\ activeId' = Null
  /\ IF over = Null \/ ~HasId(tasks, activeId)
     THEN /\ NoCommit
          /\ toast' = toast
     ELSE IF over.s \in TaskStatus
     THEN IF Find(tasks, activeId).status # Str(over.s)
          THEN /\ Commit(DragMove(tasks, activeId, over.s, now), "ready")
               /\ toast' = Toast("success", "Task moved to " \o ColumnName(over.s))
          ELSE /\ NoCommit
               /\ toast' = toast
     ELSE IF HasId(tasks, over) /\ Find(tasks, activeId).status = Find(tasks, over).status
     THEN /\ Commit(DragReorder(tasks, activeId, over), "ready")
          /\ toast' = toast
     ELSE /\ NoCommit
          /\ toast' = toast
  /\ UNCHANGED <<pending, selectedTaskId, deleteTaskId, editingTask, isEditModalOpen,
                 now, quota, exported, notifVars, atClose>>

(***************************************************************************)
(* The displayed tasks.  Dates are compared as date-fns does, in a time    *)
(* zone without offset: a day is 86400000 ms, time 0 is a Thursday and a   *)
(* week starts on Sunday.  The clock of the model stays within one day, so *)
(* the value useMemo has kept is the value a new computation would give.   *)
(***************************************************************************)
\* an overdue filter that looks at the due date only
matchesOverdueAnyStatus(task, t) ==
  /\ task.dueDate.t = "date"
  /\ task.dueDate.n < t

\* isPast(taskDate) && !isToday(taskDate) && task.status !== 'done'
matchesOverdue(task, t) ==
  /\ task.dueDate.t = "date"
  /\ task.dueDate.n < t
  /\ ~(task.dueDate.n \div 86400000 = t \div 86400000)
  /\ task.status # Str("done")

\* a date filter that lets the tasks without a due date through
matchesDateUndated(task, t) ==
  LET taskDate == NewDate(task.dueDate)
      isWithinInterval(start, end) ==
        taskDate.t = "date" /\ start <= taskDate.n /\ taskDate.n <= end
      startOfWeek == ((t \div 86400000) - (((t \div 86400000) + 4) % 7)) * 86400000
  IN IF dateFilterType # "all" /\ Truthy(task.dueDate)
     THEN CASE dateFilterType = "today" ->
                 taskDate.t = "date" /\ taskDate.n \div 86400000 = t \div 86400000
            [] dateFilterType = "week" ->
                 isWithinInterval(startOfWeek, startOfWeek + 7 * 86400000 - 1)
            [] dateFilterType = "overdue" -> matchesOverdue(task, t)
            [] dateFilterType = "custom" /\ Truthy(customDateRange.from)
                                         /\ Truthy(customDateRange.to) ->
                 isWithinInterval((customDateRange.from.n \div 86400000) * 86400000,
                                  (customDateRange.to.n \div 86400000) * 86400000
                                    + 86400000 - 1)
            [] OTHER -> TRUE
     ELSE TRUE

\* the date part of the filter: new Date() is t
matchesDate(task, t) ==
  LET taskDate == NewDate(task.dueDate)
      isWithinInterval(start, end) ==
        taskDate.t = "date" /\ start <= taskDate.n /\ taskDate.n <= end
      startOfWeek == ((t \div 86400000) - (((t \div 86400000) + 4) % 7)) * 86400000
  IN IF dateFilterType # "all" /\ Truthy(task.dueDate)
     THEN CASE dateFilterType = "today" ->
                 taskDate.t = "date" /\ taskDate.n \div 86400000 = t \div 86400000
            [] dateFilterType = "week" ->
                 isWithinInterval(startOfWeek, startOfWeek + 7 * 86400000 - 1)
            [] dateFilterType = "overdue" -> matchesOverdue(task, t)
            [] dateFilterType = "custom" /\ Truthy(customDateRange.from)
                                         /\ Truthy(customDateRange.to) ->
                 isWithinInterval((customDateRange.from.n \div 86400000) * 86400000,
                                  (customDateRange.to.n \div 86400000) * 86400000
                                    + 86400000 - 1)
            [] OTHER -> TRUE
     ELSE IF dateFilterType # "all" /\ ~Truthy(task.dueDate)
     THEN FALSE
     ELSE TRUE

filteredTasks ==
  LET matchesSearch(task) ==
        \/ includes(toLowerCase(task.title.s), toLowerCase(searchTerm))
        \/ includes(toLowerCase(task.description.s), toLowerCase(searchTerm))
      matchesFilter(task) == filterStatus = "all" \/ task.status = Str(filterStatus)
  IN Filter(tasks, LAMBDA task : matchesSearch(task) /\ matchesFilter(task)
                                  /\ matchesDate(task, now))

\* columns that file the tasks in progress under "in_progress"
columnsMisspelt ==
  [id \in TaskStatus |->
     Filter(filteredTasks,
            LAMBDA task : task.status = Str(IF id = "in-progress" THEN "in_progress" ELSE id))]

\* the tasks of the three columns
columns == [id \in TaskStatus |-> Filter(filteredTasks, LAMBDA task : task.status = Str(id))]

\* FilterBar: onSearchChange={setSearchTerm}
setSearchTerm(value) ==
  /\ phase = "ready"
  /\ PointerFree
  /\ searchTerm' = value
  /\ NoCommit
  /\ UNCHANGED <<pending, uiVars, toast, now, quota, exported, notifVars, atClose, filterStatus,
                 dateFilterType, customDateRange, keyEvent>>

\* FilterBar: onFilterChange={setFilterStatus}
setFilterStatus(value) ==
  /\ phase = "ready"
  /\ PointerFree
  /\ filterStatus' = value
  /\ NoCommit
  /\ UNCHANGED <<pending, uiVars, toast, now, quota, exported, notifVars, atClose, searchTerm,
                 dateFilterType, customDateRange, keyEvent>>

handleDateFilterChange(type, range) ==
  /\ phase = "ready"
  /\ PointerFree
  /\ dateFilterType' = type
  /\ customDateRange' = IF Truthy(range.from) \/ Truthy(range.to) THEN range
                        ELSE customDateRange
  /\ NoCommit
  /\ UNCHANGED <<pending, uiVars, toast, now, quota, exported, notifVars, atClose, searchTerm, filterStatus,
                 keyEvent>>

(***************************************************************************)
(* Editing                                                                 *)
(***************************************************************************)
\* the card's edit button: onEdit(task)
OpenEdit(i) ==
  /\ PointerFree
  /\ editingTask' = <<filteredTasks[i]>>
  /\ isEditModalOpen' = TRUE
  /\ NoCommit
  /\ UNCHANGED <<pending, activeId, selectedTaskId, deleteTaskId, toast, now, quota, exported, notifVars, atClose>>

editSelectedTask ==
  /\ phase = "ready"
  /\ HasId(tasks, selectedTaskId)
  /\ editingTask' = <<Find(tasks, selectedTaskId)>>
  /\ isEditModalOpen' = TRUE
  /\ NoCommit
  /\ UNCHANGED <<pending, activeId, selectedTaskId, deleteTaskId, toast, now, quota, exported, notifVars, atClose>>

\* the edit dialog's onClose
CloseEdit ==
  /\ phase = "ready"
  /\ isEditModalOpen
  /\ isEditModalOpen' = FALSE
  /\ editingTask' = <<>>
  /\ NoCommit
  /\ UNCHANGED <<pending, activeId, selectedTaskId, deleteTaskId, toast, now, quota, exported, notifVars, atClose>>

EditForm(title, description, dueDate, dueTime, reminderTime) ==
  [title |-> title, description |-> description, dueDate |-> dueDate,
   dueTime |-> dueTime, reminderTime |-> reminderTime]

\* what the user leaves in the edit form's fields
EditFormInputs ==
  { EditForm(" c ", "", Undef, "", Num(5)),
    EditForm("  ", "d", Undef, "09:00", Undef) }

\* EnhancedEditTaskModal.handleSubmit: the record handed to onSave
UpdatedTask(task, form, t) ==
  [task EXCEPT !.title = Str(trim(form.title)),
               !.description = Str(trim(form.description)),
               !.dueDate = form.dueDate,
               !.dueTime = IF form.dueTime # "" THEN Str(form.dueTime) ELSE Undef,
               !.reminderTime = form.reminderTime,
               !.updatedAt = DateV(t)]

\* handleEditTask: prev.map(task => task.id === updatedTask.id ? updatedTask : task)
EditMap(ts, updatedTask) ==
  [i \in 1..Len(ts) |-> IF ts[i].id = updatedTask.id THEN updatedTask ELSE ts[i]]

SubmitEdit(form) ==
  /\ phase = "ready"
  /\ isEditModalOpen
  /\ editingTask # <<>>
  /\ IF trim(form.title) # ""
     THEN /\ Commit(EditMap(tasks, UpdatedTask(editingTask[1], form, now)), "ready")
          /\ toast' = Toast("success", "Task updated successfully")
          /\ scheduled' =
               IF Truthy(form.reminderTime) /\ notificationsEnabled
               THEN scheduleNotification(UpdatedTask(editingTask[1], form, now), now)
               ELSE scheduled
          /\ isEditModalOpen' = FALSE
          /\ editingTask' = <<>>
     ELSE /\ NoCommit
          /\ UNCHANGED <<toast, isEditModalOpen, editingTask, scheduled>>
  /\ UNCHANGED <<pending, activeId, selectedTaskId, deleteTaskId, now, quota, exported,
                 notificationsEnabled, permissionAsked, atClose>>

(***************************************************************************)
(* Deleting                                                                *)
(***************************************************************************)
\* the card's delete button: onDelete(task.id)
RequestDelete(i) ==
  /\ PointerFree
  /\ deleteTaskId' = filteredTasks[i].id
  /\ NoCommit
  /\ UNCHANGED <<pending, activeId, selectedTaskId, editingTask, isEditModalOpen, toast,
                 now, quota, exported, notifVars, atClose>>

deleteSelectedTask ==
  /\ phase = "ready"
  /\ Truthy(selectedTaskId)
  /\ deleteTaskId' = selectedTaskId
  /\ NoCommit
  /\ UNCHANGED <<pending, activeId, selectedTaskId, editingTask, isEditModalOpen, toast,
                 now, quota, exported, notifVars, atClose>>

\* the confirmation dialog's onOpenChange
CancelDelete ==
  /\ phase = "ready"
  /\ deleteTaskId # Null
  /\ deleteTaskId' = Null
  /\ NoCommit
  /\ UNCHANGED <<pending, activeId, selectedTaskId, editingTask, isEditModalOpen, toast,
                 now, quota, exported, notifVars, atClose>>

\* prev.filter(task => task.id !== deleteTaskId)
DeleteFilter(ts, id) == Filter(ts, LAMBDA t : t.id # id)

handleDeleteTask ==
  /\ phase = "ready"
  /\ Truthy(deleteTaskId)
  /\ Commit(DeleteFilter(tasks, deleteTaskId), "ready")
  /\ deleteTaskId' = Null
  /\ toast' = Toast("success", "Task deleted successfully")
  /\ UNCHANGED <<pending, activeId, selectedTaskId, editingTask, isEditModalOpen,
                 now, quota, exported, notifVars, atClose>>

(***************************************************************************)
(* Completing and clearing                                                 *)
(***************************************************************************)
CompleteMap(ts, id, t) ==
  [i \in 1..Len(ts) |->
     IF ts[i].id = id
     THEN [ts[i] EXCEPT !.status = Str("done"), !.updatedAt = DateV(t)]
     ELSE ts[i]]

\* the card's complete button, shown while the task is not done
handleCompleteTask(i) ==
  /\ PointerFree
  /\ filteredTasks[i].status # Str("done")
  /\ Commit(CompleteMap(tasks, filteredTasks[i].id, now), "ready")
  /\ toast' = Toast("success", "Task marked as complete")
  /\ UNCHANGED <<pending, uiVars, now, quota, exported, notifVars, atClose>>

ClearFilter(ts) == Filter(ts, LAMBDA t : t.status # Str("done"))

handleClearCompleted ==
  /\ phase = "ready"
  /\ Commit(ClearFilter(tasks), "ready")
  /\ toast' = Toast("success", "Completed tasks cleared")
  /\ UNCHANGED <<pending, uiVars, now, quota, exported, notifVars, atClose>>

handleDeleteAll ==
  /\ PointerFree
  /\ Commit(<<>>, "ready")
  /\ toast' = Toast("success", "All tasks deleted")
  /\ UNCHANGED <<pending, uiVars, now, quota, exported, notifVars, atClose>>

(***************************************************************************)
(* Import.  A file is text that JSON.parse rejects, a JSON value that is   *)
(* no array, or an array of entries; an entry is a JSON value with the     *)
(* fields the handler reads (Undef for a field the entry does not have).   *)
(***************************************************************************)
Entry(t, id, title, description, status, createdAt, updatedAt) ==
  [t |-> t, id |-> id, title |-> title, description |-> description,
   status |-> status, createdAt |-> createdAt, updatedAt |-> updatedAt]

ImportFile(k, items) == [k |-> k, items |-> items]

\* the sample files, made of entries that are no object, that lack a string
\* title, and that carry odd ids, statuses, dates and a long title
ImportFiles ==
  LET NumberEntry == Entry("num", Undef, Undef, Undef, Undef, Undef, Undef)
      NullEntry == Entry("null", Undef, Undef, Undef, Undef, Undef, Undef)
      NoTitleEntry == Entry("obj", Str("1"), Undef, Str("d"), Str("todo"), Undef, Undef)
      NumberTitleEntry == Entry("obj", Str("1"), Num(7), Undef, Str("todo"), Undef, Undef)
      EmptyTitleEntry == Entry("obj", Str("1"), Str(""), Undef, Str("todo"), Undef, Undef)
      BlankTitleEntry == Entry("obj", Str("2"), Str("  "), Undef, Str("done"), Undef, Undef)
      DoneEntry == Entry("obj", Str("1"), Str(" a "), Str("d"), Str("done"), Iso(0), Iso(0))
      SameIdEntry == Entry("obj", Str("1"), Str("b"), Undef, Str("bogus"), Str("never"), Undef)
      NoIdEntry == Entry("obj", Undef, Str("c"), Undef, Undef, Undef, Num(1))
      NumberIdEntry == Entry("obj", Num(2), Str("e"), Num(5), Str("in-progress"), Undef, Undef)
      LongTitleEntry ==
        Entry("obj", Str("3"), Str(Rep(" ", 100) \o "x"), Undef, Str("todo"),
              Undef, Undef)
  IN { ImportFile("garbage", <<>>),
       ImportFile("object", <<>>),
       ImportFile("array", <<>>),
       ImportFile("array", <<NumberEntry, NullEntry>>),
       ImportFile("array", <<NoTitleEntry, NumberTitleEntry>>),
       ImportFile("array", <<EmptyTitleEntry, BlankTitleEntry>>),
       ImportFile("array", <<DoneEntry, SameIdEntry>>),
       ImportFile("array", <<NoIdEntry, BlankTitleEntry, NumberIdEntry>>),
       ImportFile("array", <<NullEntry, LongTitleEntry>>) }

\* typeof v
TypeOf(v) ==
  CASE v.t = "undef" -> "undefined"
    [] v.t = "str" -> "string"
    [] v.t = "num" -> "number"
    [] OTHER -> "object"

\* a filter that lets a blank title through
ValidEntryAnyTitle(e) ==
  /\ TypeOf(e) = "object"
  /\ e.t # "null"
  /\ TypeOf(e.title) = "string"

\* the filter of handleImport
ValidEntry(e) ==
  /\ TypeOf(e) = "object"
  /\ e.t # "null"
  /\ TypeOf(e.title) = "string"
  /\ Len(trim(e.title.s)) > 0

\* v || fallback
OrElse(v, fallback) == IF Truthy(v) THEN v ELSE fallback

\* a map that takes the status of the entry as it is
ImportTaskAnyStatus(e, t, r) ==
  Task(Str(ToStr(OrElse(e.id, Str(ToString(t) \o r)))),
       Str(trim(slice(ToStr(e.title), 100))),
       Str(trim(slice(ToStr(OrElse(e.description, Str(""))), 500))),
       e.status,
       NewDate(OrElse(e.createdAt, Num(t))),
       NewDate(OrElse(e.updatedAt, Num(t))),
       Undef, Undef, Undef)

\* the map of handleImport; r stands for Math.random()
ImportTask(e, t, r) ==
  Task(Str(ToStr(OrElse(e.id, Str(ToString(t) \o r)))),
       Str(trim(slice(ToStr(e.title), 100))),
       Str(trim(slice(ToStr(OrElse(e.description, Str(""))), 500))),
       IF e.status.t = "str" /\ e.status.s \in TaskStatus THEN e.status ELSE Str("todo"),
       NewDate(OrElse(e.createdAt, Num(t))),
       NewDate(OrElse(e.updatedAt, Num(t))),
       Undef, Undef, Undef)

ValidTasks(file, t) ==
  LET kept == Filter(file.items, ValidEntry)
  IN [i \in 1..Len(kept) |-> ImportTask(kept[i], t, "0." \o ToString(i))]

\* an import without the check for an empty result
NoValidTaskUnchecked(validTasks) == FALSE

\* validTasks.length === 0
NoValidTask(validTasks) == Len(validTasks) = 0

handleImport(file) ==
  /\ PointerFree
  /\ UNCHANGED <<pending, uiVars, now, quota, exported, notifVars, atClose>>
  /\ IF file.k = "garbage"
     THEN /\ NoCommit
          /\ toast' = Toast("error", "Failed to import tasks - invalid JSON format")
     ELSE IF file.k # "array"
     THEN /\ NoCommit
          /\ toast' = Toast("error", "Invalid file format - expected an array of tasks")
     ELSE LET validTasks == ValidTasks(file, now)
          IN IF NoValidTask(validTasks)
             THEN /\ NoCommit
                  /\ toast' = Toast("error", "No valid tasks found in file")
             ELSE /\ toast' = Toast("success", "Imported " \o ToString(Len(validTasks))
                                               \o " tasks successfully")
                  /\ Commit(validTasks, "ready")

(***************************************************************************)
(* Export.  The downloaded file holds JSON.stringify(tasks, null, 2); the  *)
(* model keeps the value JSON.parse makes of that text.                    *)
(***************************************************************************)
handleExport ==
  /\ PointerFree
  /\ exported' = <<Stringify(tasks)>>
  /\ toast' = Toast("success", "Tasks exported successfully")
  /\ NoCommit
  /\ UNCHANGED <<pending, uiVars, now, quota, notifVars, atClose>>

\* the exported file as handleImport reads it: an array of objects, of which
\* the handler reads id, title, description, status, createdAt and updatedAt
ExportedFile(file) ==
  ImportFile(file.k,
             [i \in 1..Len(file.items) |->
                LET j == file.items[i]
                IN Entry("obj", j.id, j.title, j.description, j.status,
                         j.createdAt, j.updatedAt)])

(***************************************************************************)
(* Keyboard navigation and shortcuts                                       *)
(***************************************************************************)
selectNextTask ==
  /\ phase = "ready"
  /\ LET allTasks == filteredTasks
         currentIndex == FindIndex(allTasks, LAMBDA t : t.id = selectedTaskId)
     IN IF ~Truthy(selectedTaskId) /\ Len(allTasks) > 0
        THEN selectedTaskId' = allTasks[1].id
        ELSE IF currentIndex < Len(allTasks)
        THEN selectedTaskId' = allTasks[currentIndex + 1].id
        ELSE selectedTaskId' = selectedTaskId
  /\ NoCommit
  /\ UNCHANGED <<pending, activeId, deleteTaskId, editingTask, isEditModalOpen, toast,
                 now, quota, exported, notifVars, atClose>>

selectPreviousTask ==
  /\ phase = "ready"
  /\ LET allTasks == filteredTasks
         currentIndex == FindIndex(allTasks, LAMBDA t : t.id = selectedTaskId)
     IN IF ~Truthy(selectedTaskId) /\ Len(allTasks) > 0
        THEN selectedTaskId' = allTasks[Len(allTasks)].id
        ELSE IF currentIndex > 1
        THEN selectedTaskId' = allTasks[currentIndex - 1].id
        ELSE selectedTaskId' = selectedTaskId
  /\ NoCommit
  /\ UNCHANGED <<pending, activeId, deleteTaskId, editingTask, isEditModalOpen, toast,
                 now, quota, exported, notifVars, atClose>>

\* prev.map(t => t.id === task.id ? { ...t, status, updatedAt: new Date() } : t)
ShortcutMove(ts, id, status, t) ==
  [i \in 1..Len(ts) |->
     IF ts[i].id = id
     THEN [ts[i] EXCEPT !.status = Str(status), !.updatedAt = DateV(t)]
     ELSE ts[i]]

\* the q, w and e shortcuts
moveTaskToStatus(status) ==
  /\ phase = "ready"
  /\ HasId(tasks, selectedTaskId)
  /\ Find(tasks, selectedTaskId).status # Str(status)
  /\ Commit(ShortcutMove(tasks, selectedTaskId, status, now), "ready")
  /\ toast' = Toast("success", "Task moved to " \o status)
  /\ UNCHANGED <<pending, uiVars, now, quota, exported, notifVars, atClose>>

ToggleMap(ts, id, newStatus, t) ==
  [i \in 1..Len(ts) |->
     IF ts[i].id = id
     THEN [ts[i] EXCEPT !.status = Str(newStatus), !.updatedAt = DateV(t)]
     ELSE ts[i]]

\* the space shortcut
toggleTaskCompletion ==
  /\ phase = "ready"
  /\ HasId(tasks, selectedTaskId)
  /\ LET newStatus == IF Find(tasks, selectedTaskId).status = Str("done") THEN "todo" ELSE "done"
     IN /\ Commit(ToggleMap(tasks, selectedTaskId, newStatus, now), "ready")
        /\ toast' = Toast("success", IF newStatus = "done" THEN "Task completed"
                                                            ELSE "Task reopened")
  /\ UNCHANGED <<pending, uiVars, now, quota, exported, notifVars, atClose>>

AiTask(t, k, title, description) ==
  Task(Str("ai-" \o ToString(t) \o "-" \o k), Str(title), Str(description), Str("todo"),
       DateV(t), DateV(t), Undef, Undef, Undef)

aiTasks(t) ==
  << AiTask(t, "1", "Review quarterly goals",
            "Analyze progress on Q4 objectives and prepare report"),
     AiTask(t, "2", "Schedule team meeting",
            "Organize weekly sync to discuss project updates"),
     AiTask(t, "3", "Update documentation",
            "Ensure all project documentation is current") >>

\* the ctrl+shift+a shortcut
generateAITasksHandler ==
  /\ phase = "ready"
  /\ Len(tasks) + Len(aiTasks(now)) <= MaxTasks
  /\ Commit(tasks \o aiTasks(now), "ready")
  /\ toast' = Toast("success", "AI tasks generated successfully")
  /\ UNCHANGED <<pending, uiVars, now, quota, exported, notifVars, atClose>>

(***************************************************************************)
(* generateTaskFromPrompt.  A response is the outcome of the one fetch: a  *)
(* network error, or an HTTP response whose body is not JSON, is JSON       *)
(* without choices, is an error document, or is a completion carrying the  *)
(* message content.  The content is a string or null; k and items give     *)
(* what JSON.parse makes of it.                                            *)
(***************************************************************************)
GenEntry(t, title, description) == [t |-> t, title |-> title, description |-> description]

Content(raw, k, items) == [raw |-> raw, k |-> k, items |-> items]

NoContent == Content(Null, "null", <<>>)

Response(kind, ok, body, content) ==
  [kind |-> kind, ok |-> ok, body |-> body, content |-> content]

NoResponse == Response("none", FALSE, "none", NoContent)

\* the sample responses: the failures of the fetch and of the body, and a
\* completion with each sample content
Responses ==
  LET Contents ==
      { Content(Str(""), "invalid", <<>>),
        Content(Str("Here are your tasks"), "invalid", <<>>),
        Content(Str(Rep("y", MAX_DESCRIPTION_LENGTH + 1)), "invalid", <<>>),
        NoContent,
        Content(Str("null"), "null", <<>>),
        Content(Str("5"), "number", <<>>),
        Content(Str("[]"), "array", <<>>),
        Content(Str("[{\"title\":\"T\",\"description\":\"D\"},{\"description\":7},4]"), "array",
                << GenEntry("obj", Str("T"), Str("D")), GenEntry("obj", Undef, Num(7)),
                   GenEntry("num", Undef, Undef) >>),
        Content(Str("[{\"title\":\"T\"},null]"), "array",
                << GenEntry("obj", Str("T"), Undef), GenEntry("null", Undef, Undef) >>),
        Content(Str("{\"title\":\"T\"}"), "object", << GenEntry("obj", Str("T"), Undef) >>),
        Content(Str("{\"title\":7}"), "object", << GenEntry("obj", Num(7), Undef) >>),
        Content(Str("{\"description\":7}"), "object", << GenEntry("obj", Undef, Num(7)) >>) }
  IN
  { Response("network-error", FALSE, "none", NoContent),
    Response("http", FALSE, "not-json", NoContent),
    Response("http", FALSE, "error-message", NoContent),
    Response("http", FALSE, "no-choices", NoContent),
    Response("http", TRUE, "not-json", NoContent),
    Response("http", TRUE, "no-choices", NoContent) }
  \cup { Response("http", TRUE, "completion", c) : c \in Contents }

GeneratedTask(title, description) == [title |-> title, description |-> description]

\* a fallback that cuts the title at 50 characters and not the description
FallbackUncut(prompt, content) ==
  << GeneratedTask(slice(prompt, 50), ToStr(OrElse(content.raw, Str(prompt)))) >>

\* the catch of the inner try
Fallback(prompt, content) ==
  << GeneratedTask(slice(prompt, MAX_TITLE_LENGTH),
                   slice(ToStr(OrElse(content.raw, Str(prompt))), MAX_DESCRIPTION_LENGTH)) >>

\* tasks.map(task => ({ title: String(task.title || 'New Task').slice(..), .. }))
SanitizeTask(e) ==
  GeneratedTask(slice(ToStr(OrElse(e.title, Str("New Task"))), MAX_TITLE_LENGTH),
                slice(ToStr(OrElse(e.description, Str(""))), MAX_DESCRIPTION_LENGTH))

\* the inner try of generateTaskFromPrompt: what the call resolves with
ParseContent(prompt, content) ==
  CASE content.k = "invalid" -> Fallback(prompt, content)
    [] content.k = "null" -> Fallback(prompt, content)   \* TypeError on tasks.title
    [] content.k = "number" -> << GeneratedTask("New Task", "") >>
    [] content.k = "object" ->
         LET title == OrElse(content.items[1].title, Str("New Task"))
             description == OrElse(content.items[1].description, Str(""))
         IN IF title.t = "str" /\ description.t = "str"
            THEN << GeneratedTask(slice(title.s, MAX_TITLE_LENGTH),
                                  slice(description.s, MAX_DESCRIPTION_LENGTH)) >>
            ELSE Fallback(prompt, content)               \* TypeError: slice is no function
    [] OTHER ->
         IF \E i \in 1..Len(content.items) : content.items[i].t = "null"
         THEN Fallback(prompt, content)                  \* TypeError on task.title
         ELSE Map(SanitizeTask, content.items)

Call(pc, prompt, apiKey, requests, resp, value, error) ==
  [pc |-> pc, prompt |-> prompt, apiKey |-> apiKey, requests |-> requests,
   resp |-> resp, value |-> value, error |-> error]

Idle == Call("idle", "", "", 0, NoResponse, <<>>, "")

\* a generateTaskFromPrompt that leaves the length of the prompt to the server
GenOnCallAnyLength(prompt, apiKey) ==
  IF apiKey = ""
  THEN Call("rejected", prompt, apiKey, 0, NoResponse, <<>>,
            "Please provide your OpenAI API key")
  ELSE IF prompt = "" \/ Len(trim(prompt)) = 0
  THEN Call("rejected", prompt, apiKey, 0, NoResponse, <<>>,
            "Please provide a task description")
  ELSE Call("fetching", prompt, apiKey, 1, NoResponse, <<>>, "")

\* the input validation and the fetch of generateTaskFromPrompt
GenOnCall(prompt, apiKey) ==
  IF apiKey = ""
  THEN Call("rejected", prompt, apiKey, 0, NoResponse, <<>>,
            "Please provide your OpenAI API key")
  ELSE IF prompt = "" \/ Len(trim(prompt)) = 0
  THEN Call("rejected", prompt, apiKey, 0, NoResponse, <<>>,
            "Please provide a task description")
  ELSE IF Len(prompt) > MAX_PROMPT_LENGTH
  THEN Call("rejected", prompt, apiKey, 0, NoResponse, <<>>,
            "Prompt is too long. Maximum 1000 characters allowed")
  ELSE Call("fetching", prompt, apiKey, 1, NoResponse, <<>>, "")

\* a generateTaskFromPrompt that sends the request once more when it fails
GenOnResponseRetry(g, resp) ==
  IF resp.kind = "network-error" \/ ~resp.ok
  THEN IF g.requests < 2
       THEN [g EXCEPT !.requests = g.requests + 1]
       ELSE [g EXCEPT !.pc = "rejected", !.resp = resp, !.error = "Failed to fetch"]
  ELSE [g EXCEPT !.pc = "resolved", !.resp = resp,
                 !.value = ParseContent(g.prompt, resp.content)]

\* generateTaskFromPrompt from the settling of its fetch to its return or throw
GenOnResponse(g, resp) ==
  IF resp.kind = "network-error"
  THEN [g EXCEPT !.pc = "rejected", !.resp = resp, !.error = "Failed to fetch"]
  ELSE IF ~resp.ok
  THEN [g EXCEPT !.pc = "rejected", !.resp = resp,
                 !.error = CASE resp.body = "not-json" -> "Unexpected token"
                             [] resp.body = "error-message" -> "Incorrect API key provided"
                             [] OTHER -> "Failed to generate tasks"]
  ELSE IF resp.body = "not-json"
  THEN [g EXCEPT !.pc = "rejected", !.resp = resp, !.error = "Unexpected token"]
  ELSE IF resp.body = "no-choices"
  THEN [g EXCEPT !.pc = "rejected", !.resp = resp,
                 !.error = "Cannot read properties of undefined"]
  ELSE [g EXCEPT !.pc = "resolved", !.resp = resp,
                 !.value = ParseContent(g.prompt, resp.content)]

Prompts ==
  { "", "  ", "plan the launch", Rep("p", MAX_TITLE_LENGTH + 1),
    Rep("q", MAX_DESCRIPTION_LENGTH + 1), Rep("r", MAX_PROMPT_LENGTH + 1) }

ApiKeys == { "", "sk-1" }

generateTaskFromPrompt(prompt, apiKey) ==
  /\ gen.pc = "idle"
  /\ gen' = GenOnCall(prompt, apiKey)

\* the fetch of generateTaskFromPrompt settles
GenSettle(resp) ==
  /\ gen.pc = "fetching"
  /\ gen' = GenOnResponse(gen, resp)

\* the caller has taken the result
GenReturn ==
  /\ gen.pc \in {"resolved", "rejected"}
  /\ gen' = Idle

(***************************************************************************)
(* getLocalSuggestions and getAISuggestions                                *)
(***************************************************************************)
Suggestion(title, description) == [title |-> title, description |-> description]

TASK_TEMPLATES ==
  <<
    [keyword |-> "website",
     templates |-> <<
         Suggestion("Design homepage layout",
                    "Create wireframes and mockups for the main landing page"),
         Suggestion("Set up hosting",
                    "Configure web hosting and domain settings"),
         Suggestion("Implement responsive design",
                    "Ensure website works on all device sizes"),
         Suggestion("Add analytics tracking",
                    "Set up Google Analytics or similar tracking") >>],
    [keyword |-> "launch",
     templates |-> <<
         Suggestion("Prepare launch announcement",
                    "Draft press release and social media posts"),
         Suggestion("Test all features",
                    "Complete QA testing of all functionality"),
         Suggestion("Create launch checklist",
                    "Document all pre-launch requirements"),
         Suggestion("Schedule marketing campaign",
                    "Plan and schedule promotional activities") >>],
    [keyword |-> "meeting",
     templates |-> <<
         Suggestion("Prepare agenda",
                    "Create detailed meeting agenda with time allocations"),
         Suggestion("Send invitations",
                    "Email meeting invites to all participants"),
         Suggestion("Book conference room",
                    "Reserve meeting space and equipment"),
         Suggestion("Follow up on action items",
                    "Send summary and assigned tasks after meeting") >>],
    [keyword |-> "project",
     templates |-> <<
         Suggestion("Define project scope",
                    "Document project objectives and deliverables"),
         Suggestion("Create timeline",
                    "Develop project schedule with milestones"),
         Suggestion("Assign team roles",
                    "Define responsibilities for each team member"),
         Suggestion("Set up project tracking",
                    "Configure project management tools") >>],
    [keyword |-> "review",
     templates |-> <<
         Suggestion("Gather feedback",
                    "Collect input from stakeholders and team members"),
         Suggestion("Analyze metrics",
                    "Review performance data and KPIs"),
         Suggestion("Document findings",
                    "Create comprehensive review report"),
         Suggestion("Plan improvements",
                    "Identify areas for optimization") >>],
    [keyword |-> "test",
     templates |-> <<
         Suggestion("Write test cases",
                    "Document all test scenarios and expected outcomes"),
         Suggestion("Set up test environment",
                    "Configure testing infrastructure"),
         Suggestion("Execute test plan",
                    "Run through all test cases systematically"),
         Suggestion("Report bugs",
                    "Document and prioritize discovered issues") >>],
    [keyword |-> "bug",
     templates |-> <<
         Suggestion("Reproduce issue",
                    "Verify bug and document steps to reproduce"),
         Suggestion("Investigate root cause",
                    "Debug and identify source of the problem"),
         Suggestion("Implement fix",
                    "Code and test the bug fix solution"),
         Suggestion("Verify resolution",
                    "Confirm bug is fixed and no regressions") >>],
    [keyword |-> "email",
     templates |-> <<
         Suggestion("Draft email template",
                    "Create reusable email format for communications"),
         Suggestion("Update mailing list",
                    "Verify and clean email recipient list"),
         Suggestion("Schedule email campaign",
                    "Set up automated email sequence"),
         Suggestion("Track email metrics",
                    "Monitor open rates and engagement") >>],
    [keyword |-> "phone",
     templates |-> <<
         Suggestion("Schedule phone calls",
                    "Block time for important phone conversations"),
         Suggestion("Prepare call notes",
                    "Document talking points for phone meetings"),
         Suggestion("Follow up on calls",
                    "Send summary emails after phone discussions"),
         Suggestion("Update contact list",
                    "Maintain current phone directory") >>],
    [keyword |-> "report",
     templates |-> <<
         Suggestion("Compile data",
                    "Gather all necessary information for report"),
         Suggestion("Create visualizations",
                    "Design charts and graphs for data presentation"),
         Suggestion("Write executive summary",
                    "Prepare high-level overview of findings"),
         Suggestion("Review and edit",
                    "Proofread and refine report content") >>]
  >>

\* the first loop: the templates of every category whose keyword matches
RECURSIVE KeywordMatches(_, _)
KeywordMatches(groups, lowercaseInput) ==
  IF groups = <<>> THEN <<>>
  ELSE (IF \/ includes(Head(groups).keyword, lowercaseInput)
           \/ includes(lowercaseInput, Head(groups).keyword)
        THEN Head(groups).templates ELSE <<>>)
       \o KeywordMatches(Tail(groups), lowercaseInput)

RECURSIVE AllTemplates(_)
AllTemplates(groups) ==
  IF groups = <<>> THEN <<>> ELSE Head(groups).templates \o AllTemplates(Tail(groups))

\* the second loop: the templates whose title or description matches, each
\* pushed unless a suggestion with its title is already there (one pushed by
\* the first loop, or an earlier match of this loop)
TextMatches(suggestions, templates, lowercaseInput) ==
  LET matching == { i \in 1..Len(templates) :
                      \/ includes(toLowerCase(templates[i].title), lowercaseInput)
                      \/ includes(toLowerCase(templates[i].description), lowercaseInput) }
      known(i) == \/ \E j \in 1..Len(suggestions) : suggestions[j].title = templates[i].title
                  \/ \E j \in matching : j < i /\ templates[j].title = templates[i].title
      pushed == SelectSeq([i \in 1..Len(templates) |-> i],
                          LAMBDA i : i \in matching /\ ~known(i))
  IN suggestions \o [k \in 1..Len(pushed) |-> templates[pushed[k]]]

getLocalSuggestions(input) ==
  IF input = "" \/ Len(input) < 2 THEN <<>>
  ELSE LET lowercaseInput == toLowerCase(input)
           suggestions == TextMatches(KeywordMatches(TASK_TEMPLATES, lowercaseInput),
                                      AllTemplates(TASK_TEMPLATES), lowercaseInput)
       IN SubSeq(suggestions, 1, Min(5, Len(suggestions)))

Inputs == { "", "e", "em", "ema", "Bug", "zzz", "launch the website" }

\* getLocalSuggestions of every sample input, computed once
localSuggestions == [input \in Inputs |-> getLocalSuggestions(input)]

SugCall(pc, input, apiKey, requests, resp, source, value) ==
  [pc |-> pc, input |-> input, apiKey |-> apiKey, requests |-> requests,
   resp |-> resp, source |-> source, value |-> value]

SugIdle == SugCall("idle", "", "", 0, NoResponse, "none", <<>>)

\* s => ({ title: String(s.title || '').slice(0, 100), ... })
SanitizeSuggestion(e) ==
  Suggestion(slice(ToStr(OrElse(e.title, Str(""))), 100),
             slice(ToStr(OrElse(e.description, Str(""))), 500))

\* no timeout is pending and suggestionsTimeoutRef.current is undefined
NoTimer == [pending |-> {}, ref |-> 0]

\* the guard and the fetch of getAISuggestions
SugOnCall(input, apiKey) ==
  IF input = "" \/ Len(input) < 3 \/ apiKey = ""
  THEN SugCall("resolved", input, apiKey, 0, NoResponse, "local",
               localSuggestions[input])
  ELSE SugCall("fetching", input, apiKey, 1, NoResponse, "none", <<>>)

\* getAISuggestions from the settling of its fetch to its return
SugOnResponse(s, resp) ==
  LET local == [s EXCEPT !.pc = "resolved", !.resp = resp, !.source = "local",
                         !.value = localSuggestions[s.input]]
      firstFive == SubSeq(resp.content.items, 1, Min(5, Len(resp.content.items)))
  IN IF resp.kind = "network-error" \/ ~resp.ok \/ resp.body # "completion"
     THEN local
     ELSE IF resp.content.k # "array"
     THEN local
     ELSE IF \E i \in 1..Len(firstFive) : firstFive[i].t = "null"
     THEN local                                          \* TypeError on s.title
     ELSE [s EXCEPT !.pc = "resolved", !.resp = resp, !.source = "ai",
                    !.value = Map(SanitizeSuggestion, firstFive)]

getAISuggestions(input, apiKey) ==
  /\ sug.pc = "idle"
  /\ sug' = SugOnCall(input, apiKey)

\* the fetch of getAISuggestions settles
SugSettle(resp) ==
  /\ sug.pc = "fetching"
  /\ sug' = SugOnResponse(sug, resp)

\* the caller has taken the suggestions
SugReturn ==
  /\ sug.pc = "resolved"
  /\ sug' = SugIdle

AiInit ==
  /\ gen = Idle
  /\ sug = SugIdle
  /\ isGenerating = FALSE
  /\ generatedTasks = <<>>
  /\ dlgApiKey = ""
  /\ showApiKeyInput = TRUE
  /\ timer = NoTimer
  /\ dlgSuggestions = <<>>
  /\ otherItems = {}
  /\ dlgTitle = ""
  /\ showSuggestions = FALSE
  /\ earlier = <<>>

(***************************************************************************)
(* The board's specification                                               *)
(***************************************************************************)
vars == <<phase, tasks, pending, storage, quota, exported, notifVars, activeId, selectedTaskId, deleteTaskId,
          editingTask, isEditModalOpen, toast, now, atClose, steps, gen, sug,
          isGenerating, generatedTasks, dlgApiKey, showApiKeyInput, timer,
          dlgSuggestions, otherItems, dlgTitle, showSuggestions, earlier, searchTerm, filterStatus, dateFilterType,
          customDateRange, keyEvent>>

Init == BoardInit /\ AiInit

\* one more handler run, while the run is shorter than MaxSteps
Step(A) ==
  /\ steps < MaxSteps
  /\ steps' = steps + 1
  /\ A

\* a handler of the board: the add dialog and the requests are left alone
Board(A) == Step(A) /\ UNCHANGED aiVars /\ UNCHANGED filterVars /\ UNCHANGED keyEvent

Next ==
  \/ Board(Mount)
  \/ Board(MountRerender)
  \/ Step(ClosePage /\ UNCHANGED aiVars)
  \/ Board(Tick)
  \/ Board(\E taskData \in TaskDataInputs : handleAddTask(taskData))
  \/ Board(\E id \in TaskIds(filteredTasks) : handleDragStart(id))
  \/ Board(\E over \in {Null} \cup {Str(c) : c \in TaskStatus} \cup TaskIds(tasks) :
            handleDragEnd(over))
  \/ Board(\E i \in 1..Len(filteredTasks) : OpenEdit(i))
  \/ Board(editSelectedTask)
  \/ Board(CloseEdit)
  \/ Board(\E form \in EditFormInputs : SubmitEdit(form))
  \/ Board(\E i \in 1..Len(filteredTasks) : RequestDelete(i))
  \/ Board(deleteSelectedTask)
  \/ Board(CancelDelete)
  \/ Board(handleDeleteTask)
  \/ Board(\E i \in 1..Len(filteredTasks) : handleCompleteTask(i))
  \/ Board(handleClearCompleted)
  \/ Board(handleDeleteAll)
  \/ Board(\E file \in ImportFiles : handleImport(file))
  \/ Board(selectNextTask)
  \/ Board(selectPreviousTask)
  \/ Board(\E status \in TaskStatus : moveTaskToStatus(status))
  \/ Board(toggleTaskCompletion)
  \/ Board(generateAITasksHandler)

Spec == Init /\ [][Next]_vars

(***************************************************************************)
(* Properties of the board                                                 *)
(***************************************************************************)

\* C1: while the board is mounted, once the save effect of a render has run,
\* the item stored under STORAGE_KEY is the JSON serialization of the whole
\* current task array, whatever handler changed the array.
C1_StorageMirrorsTasks ==
  phase \in {"loading", "ready"} => storage = Stringify(tasks)

\* a handler has changed a board of several tasks and the store holds them all
C1_Witness ==
  /\ phase = "ready"
  /\ Len(tasks) >= 2
  /\ toast.level = "success"
  /\ storage.k = "array"
  /\ Len(storage.items) = Len(tasks)

\* C2: a reload restores the persisted array: the mount's own save leaves a
\* stored, non-empty array in place, and the tasks rendered after the load
\* are the tasks at the time the page was closed, in the same order and with
\* the same id, title, description, status, due date, due time and reminder.
C2_ReloadRestores ==
  [][ /\ (Mount /\ storage.k = "array" /\ storage.items # <<>>) => storage' = storage
      /\ MountRerender =>
           /\ Len(tasks') = Len(atClose)
           /\ \A i \in 1..Len(atClose) :
                /\ tasks'[i].id = atClose[i].id
                /\ tasks'[i].title = atClose[i].title
                /\ tasks'[i].description = atClose[i].description
                /\ tasks'[i].status = atClose[i].status
                /\ tasks'[i].dueDate = atClose[i].dueDate
                /\ tasks'[i].dueTime = atClose[i].dueTime
                /\ tasks'[i].reminderTime = atClose[i].reminderTime ]_vars

\* C3: a move (the q, w and e shortcuts for the selected task, a drop of the
\* dragged task on another column) sets the status and updatedAt of that task
\* and changes no other task, nor the length or the order of the array.
C3_MoveChangesOnlyThatTask ==
  [][ /\ \A status \in TaskStatus :
           moveTaskToStatus(status) =>
             LET k == FindIndex(tasks, LAMBDA t : t.id = selectedTaskId)
             IN /\ Len(tasks') = Len(tasks)
                /\ tasks'[k] = [tasks[k] EXCEPT !.status = Str(status),
                                                !.updatedAt = DateV(now)]
                /\ \A j \in 1..Len(tasks) : j # k => tasks'[j] = tasks[j]
      /\ \A status \in TaskStatus :
           ( /\ handleDragEnd(Str(status))
             /\ HasId(tasks, activeId)
             /\ Find(tasks, activeId).status # Str(status) ) =>
             LET k == FindIndex(tasks, LAMBDA t : t.id = activeId)
             IN /\ Len(tasks') = Len(tasks)
                /\ tasks'[k] = [tasks[k] EXCEPT !.status = Str(status),
                                                !.updatedAt = DateV(now)]
                /\ \A j \in 1..Len(tasks) : j # k => tasks'[j] = tasks[j] ]_vars

\* C4: a confirmed deletion removes exactly one record, the one with the id
\* the confirmation is for, and keeps every other record in its order.
C4_DeleteRemovesExactlyOne ==
  [][ handleDeleteTask =>
        /\ Len(tasks') = Len(tasks) - 1
        /\ \E k \in 1..Len(tasks) :
             /\ tasks[k].id = deleteTaskId
             /\ tasks' = SubSeq(tasks, 1, k - 1) \o SubSeq(tasks, k + 1, Len(tasks)) ]_vars

\* C5: an import never turns an entry into a task unless the entry is an
\* object, not null, with a string title that has a character other than
\* white space: the tasks after an import are as many as such entries, and
\* the i-th task carries (part of) the title of the i-th such entry.
C5_ImportRejectsUntitled ==
  [][ \A file \in ImportFiles :
        \* every step of handleImport shows an error or "Imported ...": the first
        \* conjunct spares the evaluation of the handler on the other steps
        /\ toast'.level = "error" \/ slice(toast'.msg, 9) = "Imported "
        /\ handleImport(file)
        =>
          LET titled(i) ==
                /\ file.items[i].t = "obj"
                /\ file.items[i].title.t = "str"
                /\ \E c \in 1..Len(file.items[i].title.s) :
                     SubSeq(file.items[i].title.s, c, c) # " "
              kept == SelectSeq([i \in 1..Len(file.items) |-> i], titled)
          IN IF kept = <<>>
             THEN tasks' = tasks
             ELSE /\ Len(tasks') = Len(kept)
                  /\ \A i \in 1..Len(kept) :
                       includes(file.items[kept[i]].title.s, tasks'[i].title.s) ]_vars

\* a file of three entries, the second with a blank title, has been imported
C5_Witness ==
  /\ phase = "ready"
  /\ toast = Toast("success", "Imported 2 tasks successfully")
  /\ Len(tasks) = 2
  /\ tasks[1].title = Str("c")
  /\ tasks[2].title = Str("e")

\* C6: an import replaces the array by the validated records of the file, and
\* does so only after validation: a file that is no JSON, no array, or has no
\* valid record leaves the array and the stored copy as they are and shows an
\* error; any other file makes the array exactly the validated records.
C6_ImportOnlyAfterValidation ==
  [][ \A file \in ImportFiles :
        \* every step of handleImport shows an error or "Imported ...": the first
        \* conjunct spares the evaluation of the handler on the other steps
        /\ toast'.level = "error" \/ slice(toast'.msg, 9) = "Imported "
        /\ handleImport(file)
        =>
          IF file.k # "array" \/ ~\E i \in 1..Len(file.items) : ValidEntry(file.items[i])
          THEN /\ tasks' = tasks
               /\ storage' = storage
               /\ toast'.level = "error"
          ELSE /\ tasks' = ValidTasks(file, now)
               /\ storage' = Stringify(ValidTasks(file, now))
               /\ toast'.level = "success" ]_vars

\* a file without a valid record was refused while the board held tasks
C6_Witness ==
  /\ phase = "ready"
  /\ toast = Toast("error", "No valid tasks found in file")
  /\ Len(tasks) > 0
  /\ storage = Stringify(tasks)

\* C7: the status of every task of the array, and of every task a load is
\* about to render, is one of the three values of TaskStatus.
C7_StatusEnumerated ==
  /\ \A i \in 1..Len(tasks) :
       tasks[i].status.t = "str" /\ tasks[i].status.s \in TaskStatus
  /\ \A i \in 1..Len(pending) :
       pending[i].status.t = "str" /\ pending[i].status.s \in TaskStatus

\* the entry with the unknown status "bogus" has been imported, as a todo task
C7_Witness ==
  /\ phase = "ready"
  /\ \E i \in 1..Len(tasks) : tasks[i].title = Str("b") /\ tasks[i].status = Str("todo")


(***************************************************************************)
(* The two HTTP helpers on their own, called with every sample input and   *)
(* answered with every sample response.                                    *)
(***************************************************************************)
Helper(A) == A /\ UNCHANGED <<boardVars, keyEvent, steps, isGenerating, generatedTasks, dialogVars>>

GenNext ==
  \/ Helper(\E prompt \in Prompts, apiKey \in ApiKeys :
              generateTaskFromPrompt(prompt, apiKey) /\ UNCHANGED sug)
  \/ Helper(\E resp \in Responses : GenSettle(resp) /\ UNCHANGED sug)
  \/ Helper(GenReturn /\ UNCHANGED sug)
  \/ Helper(\E input \in Inputs, apiKey \in ApiKeys :
              getAISuggestions(input, apiKey) /\ UNCHANGED gen)
  \/ Helper(\E resp \in Responses : SugSettle(resp) /\ UNCHANGED gen)
  \/ Helper(SugReturn /\ UNCHANGED gen)

GenSpec == Init /\ [][GenNext]_vars

(***************************************************************************)
(* Properties of the HTTP helpers                                          *)
(***************************************************************************)

C9_AtMostOneRequest ==
  /\ gen.requests <= 1
  /\ sug.requests <= 1
  /\ gen.resp.kind # "none" => gen.pc \in {"resolved", "rejected"}
  /\ sug.resp.kind # "none" => sug.pc = "resolved"

\* both helpers have returned after a failed request, each having sent one
C9_Witness ==
  /\ gen.pc = "rejected"
  /\ gen.resp.kind = "network-error"
  /\ gen.requests = 1
  /\ sug.pc = "resolved"
  /\ sug.resp.kind = "http"
  /\ ~sug.resp.ok
  /\ sug.requests = 1

C23_FallsBackToLocal ==
  sug.pc = "resolved" =>
    LET items == sug.resp.content.items
        firstFive == SubSeq(items, 1, Min(5, Len(items)))
    IN /\ Len(sug.value) <= 5
       /\ ( \/ Len(sug.input) < 3
            \/ sug.apiKey = ""
            \/ sug.resp.kind = "network-error"
            \/ ~sug.resp.ok
            \/ sug.resp.body # "completion"
            \/ sug.resp.content.k # "array"
            \/ \E i \in 1..Len(firstFive) : firstFive[i].t # "obj" )
          => sug.value = getLocalSuggestions(sug.input)

(***************************************************************************)
(* The add dialog's handleAIGenerate: the part up to the await, and the    *)
(* part that resumes when generateTaskFromPrompt has resolved or rejected. *)
(***************************************************************************)
WithDates(value, t) ==
  LET addDays(d, amount) == DateV(d + amount * 86400000)
  IN
  [i \in 1..Len(value) |->
     [title |-> value[i].title, description |-> value[i].description,
      dueDate |-> addDays(t, i)]]

\* the dialog shows the key entry instead of the two tabs
KeyEntryShown == showApiKeyInput /\ dlgApiKey = ""

\* the key entry's input: onChange={(e) => setApiKey(e.target.value)}
setApiKey(value) ==
  /\ phase = "ready"
  /\ KeyEntryShown
  /\ dlgApiKey' = value
  /\ UNCHANGED <<boardVars, keyEvent, gen, sug, isGenerating, generatedTasks, showApiKeyInput,
                 timer, dlgSuggestions, otherItems, dlgTitle, showSuggestions, earlier>>

\* the button "Skip AI Features"
skipAIFeatures ==
  /\ phase = "ready"
  /\ KeyEntryShown
  /\ showApiKeyInput' = FALSE
  /\ UNCHANGED <<boardVars, keyEvent, gen, sug, isGenerating, generatedTasks, dlgApiKey,
                 timer, dlgSuggestions, otherItems, dlgTitle, showSuggestions, earlier>>

\* the button "Clear API Key"
clearApiKey ==
  /\ phase = "ready"
  /\ dlgApiKey # ""
  /\ dlgApiKey' = ""
  /\ showApiKeyInput' = TRUE
  /\ toast' = Toast("info", "API key cleared from memory")
  /\ NoCommit
  /\ UNCHANGED <<pending, uiVars, now, quota, exported, notifVars, atClose, filterVars, keyEvent, gen, sug, isGenerating,
                 generatedTasks, timer, dlgSuggestions, otherItems, dlgTitle, showSuggestions, earlier>>

handleAIGenerate(aiPrompt) ==
  /\ phase = "ready"
  /\ ~isGenerating
  /\ gen.pc = "idle"
  /\ IF dlgApiKey = ""
     THEN /\ toast' = Toast("error", "Please enter your OpenAI API key first")
          /\ showApiKeyInput' = TRUE
          /\ UNCHANGED <<isGenerating, gen>>
     ELSE IF trim(aiPrompt) = ""
     THEN /\ toast' = Toast("error", "Please enter a prompt for AI task generation")
          /\ UNCHANGED <<isGenerating, gen, showApiKeyInput>>
     ELSE /\ isGenerating' = TRUE
          /\ gen' = GenOnCall(aiPrompt, dlgApiKey)
          /\ UNCHANGED <<toast, showApiKeyInput>>
  /\ NoCommit
  /\ UNCHANGED <<pending, uiVars, now, quota, exported, notifVars, atClose, filterVars, keyEvent, sug, generatedTasks,
                 dlgApiKey, timer, dlgSuggestions, otherItems, dlgTitle, showSuggestions, earlier>>

\* a continuation without the finally block: a rejection leaves the flag set
handleAIGenerateResumeNoFinally ==
  /\ phase = "ready"
  /\ isGenerating
  /\ gen.pc \in {"resolved", "rejected"}
  /\ IF gen.pc = "resolved"
     THEN /\ generatedTasks' = WithDates(gen.value, now)
          /\ toast' = Toast("success", "Generated " \o ToString(Len(gen.value)) \o " task"
                                       \o (IF Len(gen.value) > 1 THEN "s" ELSE ""))
          /\ isGenerating' = FALSE
     ELSE /\ generatedTasks' = generatedTasks
          /\ toast' = Toast("error", gen.error)
          /\ isGenerating' = isGenerating
  /\ gen' = Idle
  /\ NoCommit
  /\ UNCHANGED <<pending, uiVars, now, quota, exported, notifVars, atClose, filterVars, keyEvent, sug, dialogVars>>

handleAIGenerateResume ==
  /\ phase = "ready"
  /\ isGenerating
  /\ gen.pc \in {"resolved", "rejected"}
  /\ IF gen.pc = "resolved"
     THEN /\ generatedTasks' = WithDates(gen.value, now)
          /\ toast' = Toast("success", "Generated " \o ToString(Len(gen.value)) \o " task"
                                       \o (IF Len(gen.value) > 1 THEN "s" ELSE ""))
     ELSE /\ generatedTasks' = generatedTasks
          /\ toast' = Toast("error", gen.error)
  /\ isGenerating' = FALSE
  /\ gen' = Idle
  /\ NoCommit
  /\ UNCHANGED <<pending, uiVars, now, quota, exported, notifVars, atClose, filterVars, keyEvent, sug, dialogVars>>

\* closing the page also drops the dialog's state and the pending request
CloseDialog ==
  /\ gen' = Idle
  /\ isGenerating' = FALSE
  /\ generatedTasks' = <<>>
  /\ sug' = SugIdle
  /\ dlgApiKey' = ""
  /\ showApiKeyInput' = TRUE
  /\ timer' = NoTimer
  /\ dlgSuggestions' = <<>>
  /\ otherItems' = otherItems
  /\ dlgTitle' = ""
  /\ showSuggestions' = FALSE
  /\ earlier' = <<>>

(***************************************************************************)
(* The environment's faults: the storage quota is used up, so that every   *)
(* later setItem throws; the item under STORAGE_KEY is overwritten, while  *)
(* the page is closed, with text that is no JSON or with a JSON object.    *)
(***************************************************************************)
StorageFills ==
  /\ ~quota
  /\ quota' = TRUE
  /\ UNCHANGED <<phase, tasks, pending, storage, uiVars, toast, now, atClose, exported, notifVars>>

ForeignWrite(item) ==
  /\ phase = "closed"
  /\ ~quota
  /\ storage' = item
  /\ UNCHANGED <<phase, tasks, pending, quota, exported, notifVars, uiVars, toast, now, atClose>>

\* what the dialog's button lets through: a key, and a prompt that is not blank
DialogPrompts == { p \in Prompts : trim(p) # "" /\ Len(p) <= MAX_PROMPT_LENGTH }

FaultNext ==
  \/ Board(Mount)
  \/ Board(MountRerender)
  \/ Step(ClosePage /\ CloseDialog)
  \/ Board(StorageFills)
  \/ Board(\E item \in { [k |-> "garbage", items |-> <<>>], [k |-> "object", items |-> <<>>] } :
              ForeignWrite(item))
  \/ Board(\E taskData \in TaskDataInputs : handleAddTask(taskData))
  \/ Board(handleDeleteAll)
  \/ Board(\E file \in ImportFiles : handleImport(file))
  \/ Step(\E value \in ApiKeys \ {""} : setApiKey(value))
  \/ Step(\E aiPrompt \in DialogPrompts : dlgApiKey # "" /\ handleAIGenerate(aiPrompt))
  \/ Step(\E resp \in Responses :
            GenSettle(resp) /\ UNCHANGED <<boardVars, keyEvent, sug, isGenerating, generatedTasks,
                                          dialogVars>>)
  \/ Step(handleAIGenerateResume)

FaultSpec == Init /\ [][FaultNext]_vars

(***************************************************************************)
(* Properties of the board under faults                                    *)
(***************************************************************************)

\* C10: every failure leaves the board operating and the task array as it
\* was, and shows an error: a rejected AI generation, an import file that is
\* no JSON, a stored item that cannot be loaded, a storage write that throws.
C10_FailuresSurfaced ==
  [][ /\ (handleAIGenerateResume /\ gen.pc = "rejected") =>
           /\ phase' = "ready"
           /\ tasks' = tasks
           /\ toast'.level = "error"
      /\ \A file \in ImportFiles :
           (handleImport(file) /\ file.k = "garbage") =>
             /\ phase' = "ready"
             /\ tasks' = tasks
             /\ toast'.level = "error"
      /\ (Mount /\ storage.k \notin {"absent", "array"}) =>
           /\ phase' = "ready"
           /\ tasks' = tasks
           /\ toast'.level = "error"
      /\ (quota /\ phase \in {"closed", "loading", "ready"}) =>
           /\ phase' # "crashed"
           /\ tasks' # tasks => toast'.level = "error" ]_vars

(***************************************************************************)
(* The add dialog's title input: handleTitleChange replaces the pending    *)
(* timeout; the timeout's callback was created by the render in which the  *)
(* title was typed, and reads that render's apiKey.                        *)
(***************************************************************************)
\* a change of the title that leaves the timeout of the change before pending
handleTitleChangeKeepsTimer(value) ==
  /\ phase = "ready"
  /\ ~KeyEntryShown
  /\ dlgTitle' = slice(value, 100)
  /\ IF Len(value) < 2
     THEN /\ timer' = timer
          /\ showSuggestions' = FALSE
          /\ dlgSuggestions' = <<>>
     ELSE /\ timer' = [pending |-> timer.pending \cup
                                     {[id |-> timer.ref + 1, value |-> value,
                                       apiKey |-> dlgApiKey]},
                       ref |-> timer.ref + 1]
          /\ UNCHANGED <<showSuggestions, dlgSuggestions>>
  /\ UNCHANGED <<boardVars, keyEvent, gen, sug, isGenerating, generatedTasks, dlgApiKey,
                 showApiKeyInput, otherItems, earlier>>

\* the title input's onChange; the callback handed to setTimeout closes over
\* value and over the apiKey of this render
handleTitleChange(value) ==
  /\ phase = "ready"
  /\ ~KeyEntryShown
  /\ dlgTitle' = slice(value, 100)
  /\ LET cleared == {t \in timer.pending : t.id # timer.ref}    \* clearTimeout
     IN IF Len(value) < 2
        THEN /\ timer' = [timer EXCEPT !.pending = cleared]
             /\ showSuggestions' = FALSE
             /\ dlgSuggestions' = <<>>
        ELSE /\ timer' = [pending |-> cleared \cup
                                        {[id |-> timer.ref + 1, value |-> value,
                                          apiKey |-> dlgApiKey]},
                          ref |-> timer.ref + 1]
             /\ UNCHANGED <<showSuggestions, dlgSuggestions>>
  /\ UNCHANGED <<boardVars, keyEvent, gen, sug, isGenerating, generatedTasks, dlgApiKey,
                 showApiKeyInput, otherItems, earlier>>

\* the callback of the timeout t, up to its await or, without a key, to its
\* end; an invocation of getAISuggestions that is still in flight stays so
SuggestionsTimeout(t) ==
  /\ phase = "ready"
  /\ t \in timer.pending
  /\ timer' = [timer EXCEPT !.pending = @ \ {t}]
  /\ IF t.apiKey # ""
     THEN /\ sug' = SugOnCall(t.value, t.apiKey)
          /\ earlier' = IF sug.pc # "idle" THEN Append(earlier, sug) ELSE earlier
          /\ UNCHANGED <<dlgSuggestions, showSuggestions>>
     ELSE /\ dlgSuggestions' = localSuggestions[t.value]
          /\ showSuggestions' = (Len(localSuggestions[t.value]) > 0)
          /\ UNCHANGED <<sug, earlier>>
  /\ UNCHANGED <<boardVars, keyEvent, gen, isGenerating, generatedTasks, dlgApiKey,
                 showApiKeyInput, otherItems, dlgTitle>>

\* the fetch of an earlier invocation of getAISuggestions settles
EarlierSettle(i, resp) ==
  /\ i \in 1..Len(earlier)
  /\ earlier[i].pc = "fetching"
  /\ earlier' = [earlier EXCEPT ![i] = SugOnResponse(@, resp)]
  /\ UNCHANGED <<boardVars, keyEvent, gen, sug, isGenerating, generatedTasks, dlgApiKey,
                 showApiKeyInput, timer, dlgSuggestions, otherItems, dlgTitle,
                 showSuggestions>>

\* a callback after its await: setSuggestions(newSuggestions) and
\* setShowSuggestions(newSuggestions.length > 0); i is 0 for the latest
\* invocation and the position in earlier for any other
SuggestionsResume(i) ==
  /\ phase = "ready"
  /\ i \in 0..Len(earlier)
  /\ LET call == IF i = 0 THEN sug ELSE earlier[i]
     IN /\ call.pc = "resolved"
        /\ dlgSuggestions' = call.value
        /\ showSuggestions' = (Len(call.value) > 0)
  /\ IF i = 0
     THEN sug' = SugIdle /\ earlier' = earlier
     ELSE sug' = sug /\ earlier' = SelectSeqBy(earlier, [j \in 1..Len(earlier) |-> j # i])
  /\ UNCHANGED <<boardVars, keyEvent, gen, isGenerating, generatedTasks, dlgApiKey,
                 showApiKeyInput, timer, otherItems, dlgTitle>>

\* resetForm, as the dialog's Cancel and its closing call it: the pending
\* timeout is not cleared
resetForm ==
  /\ phase = "ready"
  /\ dlgTitle' = ""
  /\ generatedTasks' = <<>>
  /\ dlgSuggestions' = <<>>
  /\ showSuggestions' = FALSE
  /\ UNCHANGED <<boardVars, keyEvent, gen, sug, isGenerating, dlgApiKey, showApiKeyInput,
                 timer, otherItems, earlier>>

DialogNext ==
  \/ Board(Mount)
  \/ Step(ClosePage /\ CloseDialog)
  \/ Board(\E taskData \in TaskDataInputs : handleAddTask(taskData))
  \/ Step(\E value \in { "sk-1", "sk-2" } : setApiKey(value))
  \/ Step(skipAIFeatures)
  \/ Step(clearApiKey)
  \/ Step(\E value \in Inputs : handleTitleChange(value))
  \/ Step(\E t \in timer.pending : SuggestionsTimeout(t))
  \/ Step(\E resp \in Responses :
            SugSettle(resp) /\ UNCHANGED <<boardVars, keyEvent, gen, isGenerating, generatedTasks,
                                          dialogVars>>)
  \/ Step(\E i \in 0..Len(earlier) : SuggestionsResume(i))
  \/ Step(resetForm)
  \/ Step(\E aiPrompt \in DialogPrompts : dlgApiKey # "" /\ handleAIGenerate(aiPrompt))
  \/ Step(\E resp \in Responses :
            GenSettle(resp) /\ UNCHANGED <<boardVars, keyEvent, sug, isGenerating, generatedTasks,
                                          dialogVars>>)
  \/ Step(handleAIGenerateResume)

DialogSpec == Init /\ [][DialogNext]_vars

(***************************************************************************)
(* The title input of the add dialog on its own: the board is mounted and  *)
(* the key entry is passed (with a key or without) before the handler runs *)
(* that are counted; then titles are typed, timeouts fire, the fetches of  *)
(* the lookups settle with a failure or with two suggestions, the          *)
(* callbacks resume in any order, and the form is reset.                   *)
(***************************************************************************)
SuggestNext ==
  \/ Mount /\ UNCHANGED <<steps, aiVars, filterVars, keyEvent>>
  \/ setApiKey("sk-1") /\ UNCHANGED steps
  \/ skipAIFeatures /\ UNCHANGED steps
  \/ Step(\E value \in {"e", "ema", "Bug"} : handleTitleChange(value))
  \/ Step(\E t \in timer.pending : SuggestionsTimeout(t))
  \/ Step(\E resp \in { Response("http", FALSE, "error-message", NoContent),
                        Response("http", TRUE, "completion",
                                 Content(Str("[{\"title\":\"T\"},{\"title\":\"U\"}]"), "array",
                                         << GenEntry("obj", Str("T"), Undef),
                                            GenEntry("obj", Str("U"), Undef) >>)) } :
            \/ SugSettle(resp) /\ UNCHANGED <<boardVars, keyEvent, gen, isGenerating,
                                              generatedTasks, dialogVars>>
            \/ \E i \in 1..Len(earlier) : EarlierSettle(i, resp))
  \/ Step(\E i \in 0..Len(earlier) : SuggestionsResume(i))
  \/ Step(resetForm)

SuggestSpec == Init /\ [][SuggestNext]_vars

\* C22: suggestion lookups are debounced: a change of the title cancels the
\* timeout of the change before it, so that at most one timeout is pending and
\* it is that of the last change; timeouts are started by changes of the title
\* only, and the lookup a timeout starts is for the value of its change; a
\* change to a title shorter than 2 characters leaves no timeout pending,
\* starts no lookup, and empties and hides the suggestions.
C22_Debounced ==
  [][ /\ Cardinality(timer'.pending) <= 1
      /\ \A value \in {"e", "ema", "Bug"} :
           handleTitleChange(value) =>
             /\ \A t \in timer'.pending : t.value = value
             /\ Len(value) >= 2 <=> timer'.pending # {}
             /\ Len(value) < 2 =>
                  /\ dlgSuggestions' = <<>>
                  /\ ~showSuggestions'
                  /\ sug' = sug /\ earlier' = earlier
      /\ (~\E value \in {"e", "ema", "Bug"} : handleTitleChange(value)) =>
           timer'.pending \subseteq timer.pending
      /\ \A t \in timer.pending :
           SuggestionsTimeout(t) =>
             /\ timer.pending = {t}
             /\ t.apiKey # "" => sug'.input = t.value
             /\ t.apiKey = "" => dlgSuggestions' = localSuggestions[t.value] ]_vars

\* two changes of the title, and nothing else, have run: the timeout of the
\* first is gone without having fired, that of the second is pending
C22_Witness ==
  /\ steps = 2
  /\ timer.ref = 2
  /\ \E t \in timer.pending : t.id = 2 /\ t.value = "Bug"
  /\ Cardinality(timer.pending) = 1
  /\ dlgTitle = "Bug"
  /\ sug.pc = "idle"

\* C27: the suggestions displayed belong to the most recent title value: the
\* callback of a lookup that was started for another value than the title now
\* holds (an older value, a value since shortened below 2 characters, or the
\* value of a form since reset) leaves the suggestions and their visibility
\* as they are.
C27_NoStaleSuggestions ==
  [][ \A i \in 0..Len(earlier) :
        (SuggestionsResume(i) /\ (IF i = 0 THEN sug ELSE earlier[i]).input # dlgTitle)
          => /\ dlgSuggestions' = dlgSuggestions
             /\ showSuggestions' = showSuggestions ]_vars

(***************************************************************************)
(* Properties of the add dialog                                            *)
(***************************************************************************)

\* C11: the key typed into the add dialog is held in memory only: no item of
\* the browser's storage ever holds it, and a request that is issued carries
\* the key the dialog's state holds at that moment.
C11_KeyInMemoryOnly ==
  [][ /\ otherItems' = {}
      /\ \A k \in { "sk-1", "sk-2" } : ~includes(ToString(storage'), k)
      /\ gen'.requests > gen.requests => gen'.apiKey = dlgApiKey
      /\ sug'.requests > sug.requests => sug'.apiKey = dlgApiKey ]_vars

\* C25: isGenerating is true exactly while a call of generateTaskFromPrompt
\* is outstanding (sent, or settled with its continuation still to run): a
\* request starts only while the flag is false and sets it, the call has
\* sent one request, and the flag falls only when the continuation runs
\* after the request has settled, resolved or rejected, or the page closes.
C25_GeneratingWhileInFlight ==
  [][ /\ isGenerating <=> gen.pc # "idle"
      /\ isGenerating' <=> gen'.pc # "idle"
      /\ isGenerating' => gen'.requests = 1
      /\ gen'.requests > gen.requests => ~isGenerating /\ isGenerating'
      /\ (isGenerating /\ isGenerating') => gen'.requests = gen.requests
      /\ (isGenerating /\ ~isGenerating' /\ phase' = "ready")
           => /\ gen.pc \in {"resolved", "rejected"}
              /\ gen.resp.kind # "none"
      /\ handleAIGenerateResume => ~isGenerating' ]_vars

\* the flag has fallen after a request that the server refused
C25_Witness ==
  /\ phase = "ready"
  /\ ~isGenerating
  /\ gen = Idle
  /\ dlgApiKey # ""
  /\ toast = Toast("error", "Incorrect API key provided")

(***************************************************************************)
(* The board with its filters: tasks with and without due dates are added, *)
(* completed and dragged to another column while the search term, the      *)
(* status filter and the date filter are set.  The due dates are on the    *)
(* Friday before (-6 days), on the day before, on the day itself and on    *)
(* the day after the model's day.                                          *)
(***************************************************************************)
FilterNext ==
  \/ Board(Mount)
  \/ Board(Tick)
  \/ Board(\E dueDate \in { Undef, DateV(-6 * 86400000), DateV(-1), DateV(0),
                             DateV(86400000) } :
            handleAddTask(TaskData("Alpha", "d", dueDate, Undef, Undef)))
  \/ Board(\E i \in 1..Len(filteredTasks) : handleCompleteTask(i))
  \/ Board(\E id \in TaskIds(filteredTasks) : handleDragStart(id))
  \/ Board(\E over \in {Null} \cup {Str(c) : c \in TaskStatus} \cup TaskIds(tasks) :
            handleDragEnd(over))
  \/ Step(\E value \in { "", "AL", "zz" } : setSearchTerm(value)) /\ UNCHANGED aiVars
  \/ Step(\E value \in TaskStatus \cup {"all"} : setFilterStatus(value)) /\ UNCHANGED aiVars
  \/ Step(\E type \in { "all", "today", "week", "overdue" } :
            handleDateFilterChange(type, NoRange)) /\ UNCHANGED aiVars
  \/ Step(handleDateFilterChange("custom", [from |-> DateV(-86400000), to |-> DateV(0)]))
       /\ UNCHANGED aiVars

FilterSpec == Init /\ [][FilterNext]_vars

(***************************************************************************)
(* Properties of the filters and the columns                               *)
(***************************************************************************)

\* C12: the three columns partition the displayed tasks: every displayed
\* task is in the column whose id is its status and in no other column, and
\* the sizes of the columns add up to the number of displayed tasks.
C12_ColumnsPartition ==
  LET shown == filteredTasks
      todo == columns["todo"]
      inProgress == columns["in-progress"]
      done == columns["done"]
      column(id) == IF id = "todo" THEN todo ELSE IF id = "done" THEN done ELSE inProgress
  IN /\ \A i \in 1..Len(shown) :
          \A id \in TaskStatus :
            (\E j \in 1..Len(column(id)) : column(id)[j] = shown[i])
              <=> shown[i].status = Str(id)
     /\ Len(todo) + Len(inProgress) + Len(done) = Len(shown)

\* the date filter hides one of three tasks; of the two displayed ones, one
\* is to do and one is done
C12_Witness ==
  /\ phase = "ready"
  /\ dateFilterType # "all"
  /\ Len(tasks) = 3
  /\ Len(filteredTasks) = 2
  /\ Len(columns["todo"]) = 1
  /\ Len(columns["done"]) = 1

\* C16: the date filter 'all' hides no task on account of its due date; each
\* of 'today', 'week', 'overdue' and 'custom' displays no task without a due
\* date.
C16_UndatedHidden ==
  LET shown == filteredTasks
      other(task) ==
        /\ \/ includes(toLowerCase(task.title.s), toLowerCase(searchTerm))
           \/ includes(toLowerCase(task.description.s), toLowerCase(searchTerm))
        /\ filterStatus \in {"all", task.status.s}
  IN /\ dateFilterType = "all" => shown = Filter(tasks, other)
     /\ dateFilterType # "all" => \A i \in 1..Len(shown) : shown[i].dueDate # Undef

\* under a date filter other than 'all', a task with a due date is displayed
\* and a task without one is hidden
C16_Witness ==
  /\ phase = "ready"
  /\ dateFilterType \in {"today", "week", "overdue", "custom"}
  /\ \E i \in 1..Len(tasks) : tasks[i].dueDate = Undef
  /\ Len(filteredTasks) > 0

\* C17: the date filter 'overdue' displays a task only if its due date is on
\* a day strictly before today and its status is not 'done'.
C17_OverdueOnly ==
  dateFilterType = "overdue" =>
    LET shown == filteredTasks
    IN \A i \in 1..Len(shown) :
         /\ shown[i].dueDate.t = "date"
         /\ shown[i].dueDate.n \div 86400000 < now \div 86400000
         /\ shown[i].status # Str("done")

\* under 'overdue': a task due yesterday is displayed, while a completed one
\* due yesterday and a task due today are hidden
C17_Witness ==
  /\ phase = "ready"
  /\ dateFilterType = "overdue"
  /\ Len(filteredTasks) = 1
  /\ \E i \in 1..Len(tasks) : tasks[i].dueDate = DateV(-1) /\ tasks[i].status = Str("done")
  /\ \E i \in 1..Len(tasks) : tasks[i].dueDate = DateV(0)

(***************************************************************************)
(* Drag and drop on its own: tasks are added at two times, completed and   *)
(* cleared, dragged, and dropped on nothing, on a column, on a task and on *)
(* an id that is neither.                                                  *)
(***************************************************************************)
DropTargets == {Null, Str("ghost")} \cup {Str(c) : c \in TaskStatus} \cup TaskIds(tasks)

DragNext ==
  \/ Board(Mount)
  \/ Board(Tick)
  \/ Board(\E taskData \in TaskDataInputs : handleAddTask(taskData))
  \/ Board(\E i \in 1..Len(filteredTasks) : handleCompleteTask(i))
  \/ Board(handleClearCompleted)
  \/ Board(\E id \in TaskIds(filteredTasks) : handleDragStart(id))
  \/ Board(\E over \in DropTargets : handleDragEnd(over))

DragSpec == Init /\ [][DragNext]_vars

\* the drag end is the reorder branch of handleDragEnd
Reorders(over) ==
  /\ handleDragEnd(over)
  /\ over # Null
  /\ over.s \notin TaskStatus
  /\ HasId(tasks, activeId)
  /\ HasId(tasks, over)
  /\ Find(tasks, activeId).status = Find(tasks, over).status

(***************************************************************************)
(* Properties of drag and drop                                             *)
(***************************************************************************)

\* C13: a drop on a task of the same column leaves the array with the same
\* records, each as often as before (none lost, none duplicated, none
\* changed in any field), and with the same length.
C13_ReorderKeepsRecords ==
  [][ \A over \in DropTargets :
        Reorders(over) =>
          /\ Len(tasks') = Len(tasks)
          /\ \A i \in 1..Len(tasks) :
               Cardinality({ j \in 1..Len(tasks') : tasks'[j] = tasks[i] })
                 = Cardinality({ j \in 1..Len(tasks) : tasks[j] = tasks[i] }) ]_vars

\* the task created second has been dropped on the task created first: both
\* are in the array, with the fields they were added with
C13_Witness ==
  /\ phase = "ready"
  /\ activeId = Null
  /\ Len(tasks) = 2
  /\ tasks[1] = [tasks[2] EXCEPT !.id = Str("1"), !.createdAt = DateV(1),
                                 !.updatedAt = DateV(1)]
  /\ tasks[2].createdAt = DateV(0)

isTypingInputOnly(event) == event.tagName = "INPUT"

\* the target is an input field
isTyping(event) ==
  \/ event.tagName = "INPUT"
  \/ event.tagName = "TEXTAREA"
  \/ event.contentEditable = "true"

\* the shortcuts of KanbanBoard: key, ctrl, alt, shift, and the action by name
shortcuts ==
  LET S(key, ctrl, alt, shift, action) ==
        [key |-> key, ctrl |-> ctrl, alt |-> alt, shift |-> shift, meta |-> FALSE,
         action |-> action]
  IN << S("n", TRUE, FALSE, FALSE, "setIsAddModalOpen"),
        S("Delete", FALSE, FALSE, FALSE, "deleteSelectedTask"),
        S("Enter", FALSE, FALSE, FALSE, "editSelectedTask"),
        S("d", TRUE, FALSE, TRUE, "handleClearCompleted"),
        S("a", TRUE, FALSE, TRUE, "generateAITasksHandler"),
        S("ArrowUp", FALSE, FALSE, FALSE, "selectPreviousTask"),
        S("ArrowDown", FALSE, FALSE, FALSE, "selectNextTask"),
        S("1", FALSE, FALSE, FALSE, "setFocusedColumn"),
        S("2", FALSE, FALSE, FALSE, "setFocusedColumn"),
        S("3", FALSE, FALSE, FALSE, "setFocusedColumn"),
        S("q", FALSE, FALSE, FALSE, "todo"),
        S("w", FALSE, FALSE, FALSE, "in-progress"),
        S("e", FALSE, FALSE, FALSE, "done"),
        S(" ", FALSE, FALSE, FALSE, "toggleTaskCompletion"),
        S("f", TRUE, FALSE, FALSE, "focus"),
        S("Escape", FALSE, FALSE, FALSE, "Escape"),
        S("t", FALSE, TRUE, FALSE, "today"),
        S("w", FALSE, TRUE, FALSE, "week"),
        S("o", FALSE, TRUE, FALSE, "overdue"),
        S("s", TRUE, FALSE, FALSE, "setShowStatistics"),
        S("t", TRUE, FALSE, FALSE, "toggleTheme"),
        S("b", TRUE, FALSE, FALSE, "enableNotifications"),
        S("?", FALSE, FALSE, TRUE, "setShowShortcuts") >>

\* shortcut.key.toLowerCase() of every shortcut, computed once
shortcutKeys == [i \in 1..Len(shortcuts) |-> toLowerCase(shortcuts[i].key)]

\* a handler that is called and, where its own condition fails, does nothing
Run(A) ==
  \/ A
  \/ /\ ~ENABLED A
     /\ UNCHANGED <<phase, tasks, pending, storage, quota, exported, notifVars, uiVars, toast, now, atClose>>

\* shortcut.action()
RunShortcut(action) ==
  \/ /\ action = "deleteSelectedTask"
     /\ Run(deleteSelectedTask) /\ UNCHANGED filterVars
  \/ /\ action = "editSelectedTask"
     /\ Run(editSelectedTask) /\ UNCHANGED filterVars
  \/ /\ action = "handleClearCompleted"
     /\ Run(handleClearCompleted) /\ UNCHANGED filterVars
  \/ /\ action = "generateAITasksHandler"
     /\ Run(generateAITasksHandler) /\ UNCHANGED filterVars
  \/ /\ action = "selectPreviousTask"
     /\ Run(selectPreviousTask) /\ UNCHANGED filterVars
  \/ /\ action = "selectNextTask"
     /\ Run(selectNextTask) /\ UNCHANGED filterVars
  \/ /\ action \in TaskStatus
     /\ Run(moveTaskToStatus(action)) /\ UNCHANGED filterVars
  \/ /\ action = "toggleTaskCompletion"
     /\ Run(toggleTaskCompletion) /\ UNCHANGED filterVars
  \/ /\ action = "Escape"
     /\ searchTerm' = ""
     /\ isEditModalOpen' = FALSE
     /\ NoCommit
     /\ UNCHANGED <<pending, quota, exported, notifVars, activeId, selectedTaskId, deleteTaskId, editingTask,
                    toast, now, atClose, filterStatus, dateFilterType, customDateRange>>
  \/ /\ action \in {"today", "week", "overdue"}
     /\ dateFilterType' = action
     /\ NoCommit
     /\ UNCHANGED <<pending, quota, exported, notifVars, uiVars, toast, now, atClose, searchTerm, filterStatus,
                    customDateRange>>
  \/ /\ action \in {"setIsAddModalOpen", "setFocusedColumn", "focus", "setShowStatistics",
                     "toggleTheme", "enableNotifications", "setShowShortcuts"}
     /\ NoCommit
     /\ UNCHANGED <<pending, quota, exported, notifVars, uiVars, toast, now, atClose, filterVars>>

handleKeyDown(event) ==
  /\ phase = "ready"
  /\ LET key == toLowerCase(event.key)
         matches(i) ==
           /\ event.ctrlKey = shortcuts[i].ctrl
           /\ event.altKey = shortcuts[i].alt
           /\ event.shiftKey = shortcuts[i].shift
           /\ event.metaKey = shortcuts[i].meta
           /\ key = shortcutKeys[i]
         hits == { i \in 1..Len(shortcuts) : matches(i) }
     IN IF (isTyping(event) /\ event.key # "Escape") \/ hits = {}
        THEN /\ keyEvent' = event
             /\ NoCommit
             /\ UNCHANGED <<pending, quota, exported, notifVars, uiVars, toast, now, atClose, filterVars>>
        ELSE /\ keyEvent' = [event EXCEPT !.defaultPrevented = TRUE]
             /\ \E i \in hits : RunShortcut(shortcuts[i].action)

\* the keys pressed, alone or with the modifiers of a shortcut, on the page,
\* in an input, in a textarea, in an editable element, on a button
KeyEvents ==
  LET keys == { <<"Delete", FALSE, FALSE, FALSE>>, <<"Enter", FALSE, FALSE, FALSE>>,
                <<"D", TRUE, FALSE, TRUE>>, <<"ArrowDown", FALSE, FALSE, FALSE>>,
                <<"q", FALSE, FALSE, FALSE>>, <<"e", FALSE, FALSE, FALSE>>,
                <<"E", FALSE, FALSE, TRUE>>, <<" ", FALSE, FALSE, FALSE>>,
                <<"Escape", FALSE, FALSE, FALSE>>, <<"t", FALSE, TRUE, FALSE>>,
                <<"x", FALSE, FALSE, FALSE>> }
      targets == { <<"BODY", "inherit">>, <<"INPUT", "inherit">>, <<"TEXTAREA", "inherit">>,
                   <<"DIV", "true">>, <<"BUTTON", "inherit">> }
  IN { [key |-> k[1], ctrlKey |-> k[2], altKey |-> k[3], shiftKey |-> k[4],
        metaKey |-> FALSE, tagName |-> t[1], contentEditable |-> t[2],
        defaultPrevented |-> FALSE] : k \in keys, t \in targets }

KeyNext ==
  \/ Board(Mount)
  \/ Board(\E taskData \in TaskDataInputs : handleAddTask(taskData))
  \/ Board(\E i \in 1..Len(filteredTasks) : handleCompleteTask(i))
  \/ Board(\E i \in 1..Len(filteredTasks) : OpenEdit(i))
  \/ Step(\E value \in { "", "a", "zz" } : setSearchTerm(value)) /\ UNCHANGED aiVars
  \/ Step(\E event \in KeyEvents : handleKeyDown(event)) /\ UNCHANGED aiVars

KeySpec == Init /\ [][KeyNext]_vars

(***************************************************************************)
(* Properties of the keyboard shortcuts                                    *)
(***************************************************************************)

\* C18: a key event whose target is an input, a textarea or an editable
\* element runs no shortcut: it changes neither the task array nor any other
\* state of the board; only Escape runs its action there, which clears the
\* search term and closes the edit dialog.
C18_NoShortcutWhileTyping ==
  [][ \A event \in KeyEvents :
        ( /\ \/ event.tagName \in {"INPUT", "TEXTAREA"}
             \/ event.contentEditable = "true"
          /\ [keyEvent' EXCEPT !.defaultPrevented = FALSE] = event
          /\ handleKeyDown(event) ) =>
          IF event.key = "Escape"
          THEN /\ keyEvent'.defaultPrevented
               /\ searchTerm' = ""
               /\ isEditModalOpen' = FALSE
               /\ tasks' = tasks
          ELSE /\ ~keyEvent'.defaultPrevented
               /\ UNCHANGED <<boardVars, aiVars>> ]_vars

\* with a task to do selected, the key e was pressed in a textarea and ran no
\* shortcut
C18_Witness ==
  /\ phase = "ready"
  /\ keyEvent.key = "e"
  /\ keyEvent.tagName = "TEXTAREA"
  /\ ~keyEvent.defaultPrevented
  /\ HasId(tasks, selectedTaskId)
  /\ Find(tasks, selectedTaskId).status = Str("todo")

(***************************************************************************)
(* Export and import: tasks with and without a due date, a due time and a  *)
(* reminder are added and completed, the board is exported, emptied, and   *)
(* the exported file is imported.                                          *)
(***************************************************************************)
ExportNext ==
  \/ Board(Mount)
  \/ Board(Tick)
  \/ Board(\E taskData \in { TaskData("a", "d", DateV(86400000), Str("09:00"), Num(10)),
                               TaskData("b", "", Undef, Undef, Undef) } :
            handleAddTask(taskData))
  \/ Board(\E i \in 1..Len(filteredTasks) : handleCompleteTask(i))
  \/ Board(handleDeleteAll)
  \/ Board(handleExport)
  \/ Board(exported # <<>> /\ handleImport(ExportedFile(exported[1])))

ExportSpec == Init /\ [][ExportNext]_vars

\* C26: the import of a file that the export of a non-empty board has
\* written makes the array the tasks of the file in their order, each with
\* the id, title, description, status, due date, due time and reminder that
\* it had when the board was exported.
C26_RoundTrip ==
  [][ ( /\ exported # <<>>
        /\ Len(exported[1].items) > 0
        /\ handleImport(ExportedFile(exported[1])) )
      => LET before == exported[1].items
             after == Stringify(tasks').items
         IN /\ Len(after) = Len(before)
            /\ \A i \in 1..Len(before) :
                 /\ after[i].id = before[i].id
                 /\ after[i].title = before[i].title
                 /\ after[i].description = before[i].description
                 /\ after[i].status = before[i].status
                 /\ after[i].dueDate = before[i].dueDate
                 /\ after[i].dueTime = before[i].dueTime
                 /\ after[i].reminderTime = before[i].reminderTime ]_vars

(***************************************************************************)
(* Properties of editing                                                   *)
(***************************************************************************)

\* C19: saving an edit changes the title, description, due date, due time,
\* reminder and updatedAt of the edited task and nothing else: the task keeps
\* its id, its createdAt and the status it has in the array when the edit is
\* saved, every other task and the length and order of the array stay as
\* they are, and nothing is saved when the trimmed title is empty.
C19_EditFrame ==
  [][ \A form \in EditFormInputs :
        SubmitEdit(form) =>
          IF trim(form.title) = ""
          THEN tasks' = tasks /\ storage' = storage
          ELSE /\ Len(tasks') = Len(tasks)
               /\ HasId(tasks, editingTask[1].id) =>
                    LET k == FindIndex(tasks, LAMBDA t : t.id = editingTask[1].id)
                    IN /\ tasks'[k].id = tasks[k].id
                       /\ tasks'[k].createdAt = tasks[k].createdAt
                       /\ tasks'[k].status = tasks[k].status
                       /\ \A j \in 1..Len(tasks) : j # k => tasks'[j] = tasks[j] ]_vars

(***************************************************************************)
(* C20: maximum lengths are enforced: every task in the array has a title  *)
(* that is non-empty after trimming and at most 100 characters long, and   *)
(* a description of at most 500 characters.                                *)
(***************************************************************************)
C20_LengthsEnforced ==
  \A i \in 1..Len(tasks) :
    /\ trim(tasks[i].title.s) # ""
    /\ Len(tasks[i].title.s) <= MAX_TITLE_LENGTH
    /\ Len(tasks[i].description.s) <= MAX_DESCRIPTION_LENGTH

(***************************************************************************)
(* Reminders: the permission request of the mount, the button that asks    *)
(* again, the add dialog's form, and the timeouts of scheduleNotification. *)
(***************************************************************************)
\* requestNotificationPermission().then(granted => ...) of the mount; granted
\* is what the browser and the user answer
PermissionSettles(granted) ==
  /\ permissionAsked
  /\ phase \in {"loading", "ready"}
  /\ permissionAsked' = FALSE
  /\ notificationsEnabled' = granted
  /\ toast' = IF granted THEN Toast("success", "Notifications enabled for task reminders")
                         ELSE toast
  /\ UNCHANGED <<phase, tasks, pending, storage, quota, exported, uiVars, now, atClose, scheduled>>

\* the button shown while notifications are not enabled
enableNotifications(granted) ==
  /\ PointerFree
  /\ ~notificationsEnabled
  /\ notificationsEnabled' = granted
  /\ toast' = IF granted
              THEN Toast("success", "Notifications enabled!")
              ELSE Toast("error", "Please enable notifications in your browser settings")
  /\ UNCHANGED <<phase, tasks, pending, storage, quota, exported, uiVars, now, atClose,
                 permissionAsked, scheduled>>

\* what the user leaves in the add form: a title, a description, a date of
\* the calendar, a value of the time input and an option of the reminders
AddForms ==
  [title : {" b "}, description : {""},
   dueDate : {Undef, DateV(86400000)},
   dueTime : {"", "00:10"},
   reminderTime : {"", "0", "1440"}]

\* EnhancedAddTaskModal.handleSubmit; the permission it awaits when a reminder
\* is chosen changes no state of the page
handleSubmit(form) ==
  LET trimmedTitle == slice(trim(form.title), 100)
      trimmedDescription == slice(trim(form.description), 500)
  IN IF trimmedTitle # ""
     THEN /\ handleAddTask(TaskData(trimmedTitle, trimmedDescription, form.dueDate,
                                    Str(form.dueTime),
                                    IF form.reminderTime # ""
                                    THEN Num(parseInt(form.reminderTime)) ELSE Undef))
          \* resetForm
          /\ dlgTitle' = ""
          /\ generatedTasks' = <<>>
          /\ dlgSuggestions' = <<>>
          /\ showSuggestions' = FALSE
          /\ UNCHANGED <<gen, sug, isGenerating, dlgApiKey, showApiKeyInput, timer, otherItems,
                         earlier>>
     ELSE UNCHANGED <<boardVars, aiVars>>

NotifNext ==
  \/ Board(Mount)
  \/ Board(Tick)
  \/ Board(\E granted \in BOOLEAN : PermissionSettles(granted))
  \/ Board(\E granted \in BOOLEAN : enableNotifications(granted))
  \/ Step(\E form \in AddForms : handleSubmit(form)) /\ UNCHANGED <<filterVars, keyEvent>>
  \/ Board(\E i \in 1..Len(filteredTasks) : OpenEdit(i))
  \/ Board(\E dueDate \in {Undef, DateV(86400000)}, reminderTime \in {Undef, Num(5), Num(1440)} :
            SubmitEdit(EditForm("c", "", dueDate, "", reminderTime)))
  \/ Step(ClosePage /\ UNCHANGED aiVars)

NotifSpec == Init /\ [][NotifNext]_vars

\* C21: a task with a due date that is added with any reminder option of the
\* form, or saved by the edit dialog with a reminder, while notifications are
\* enabled, gets a timer for the reminder instant (due date and time less the
\* reminder minutes) when that instant is in the future, and no timer when it
\* is not.
C21_ReminderScheduled ==
  [][ LET minutesOf == ("0" :> 0) @@ ("1440" :> 1440)
          timeOf == ("" :> 0) @@ ("00:10" :> 600000)
          Expected(id, instant) ==
            scheduled' = IF instant > now
                         THEN Append(scheduled, [tag |-> id, at |-> instant])
                         ELSE scheduled
      IN /\ \A form \in AddForms :
              /\ form.dueDate # Undef
              /\ form.reminderTime # ""
              /\ notificationsEnabled
              /\ handleSubmit(form)
              => Expected(Str(ToString(now)),
                          form.dueDate.n + timeOf[form.dueTime]
                            - minutesOf[form.reminderTime] * 60000)
         /\ \A dueDate \in {DateV(86400000)}, reminderTime \in {Num(5), Num(1440)} :
              /\ notificationsEnabled
              /\ SubmitEdit(EditForm("c", "", dueDate, "", reminderTime))
              => Expected(editingTask[1].id, dueDate.n - reminderTime.n * 60000) ]_vars

====
